---- MODULE Spec2Model ----
(***************************************************************************)
(* Model of the sgsfish action-sequence recommender: the action catalog    *)
(* (game_elements.py), the catalog store (database.py), the learnable      *)
(* influence weight table (training.py), the sequence scorer and the       *)
(* exhaustive sequence search (game_logic.py, training.py) and the start-  *)
(* up wiring (main.py).                                                    *)
(*                                                                         *)
(* Numbers.  Attribute values and modifiers are integers (a fixed-point    *)
(* unit: base value 1.0 is 1).  A health ratio is the exact fraction       *)
(* <<numerator, denominator>>, and a score is kept as an integer numerator *)
(* over the denominator den of its context (ScoreDen): the real score is   *)
(* score / den.  All scores compared with each other inside one call share *)
(* one context, so comparing numerators compares the scores.  Floating-    *)
(* point rounding is not modelled.                                         *)
(*                                                                         *)
(* Python values.  None of an Optional[int] is the empty tuple and the int *)
(* n is <<n>>.  A dict is a function; its key set is its DOMAIN.  An       *)
(* entity's scope list that is None and one that is [] are both <<>>: the  *)
(* code only ever tests the list's truthiness or membership in it.          *)
(***************************************************************************)
EXTENDS Integers, Sequences, FiniteSets, TLC

(* ------------------------------ bounds --------------------------------- *)
\* Cards in a hand handed to find_best_sequence.
MaxHand == 3
\* Expanded (entity, scope) choices find_best_sequence is run on.
MaxChoices == 4
\* Length of a sequence handed to calculate_sequence_score_with_weights.
MaxSeqLen == 3

(* --------------------------- Python values ----------------------------- *)
None == <<>>
Some(v) == <<v>>

\* key in d
Has(d, key) == \E x \in DOMAIN d : x = key
EmptyDict == [x \in {} |-> None]
\* the elements of a list
Elements(list) == {list[i] : i \in 1..Len(list)}

(* ------------------------- game_elements.py ---------------------------- *)
AttributeSet(a, d, s) == [attack |-> a, defense |-> d, support |-> s]

\* TensorAttributeSet(): the default, all-zero modifier
TensorAttributeSet == AttributeSet(0, 0, 0)

\* AttributeSet.__add__ / TensorAttributeSet.__add__
AttrAdd(x, y) ==
    AttributeSet(x.attack + y.attack, x.defense + y.defense, x.support + y.support)

\* Hero.get_hp_ratio: current_hp / max_hp if max_hp > 0 else 0, as a fraction
get_hp_ratio(hero) ==
    IF hero.max_hp > 0 THEN <<hero.current_hp, hero.max_hp>> ELSE <<0, 1>>

\* The scope column: a JSON text or NULL, kept by what json.loads makes of it.
JsonNull == [kind |-> "null", items |-> <<>>]
JsonList(items) == [kind |-> "list", items |-> items]
JsonScalar == [kind |-> "scalar", items |-> <<>>]
JsonInvalid == [kind |-> "invalid", items |-> <<>>]

\* load_action_entity_prototypes, the scope parsing: NULL or empty text gives
\* None, a JSON list gives the list, any other JSON value and undecodable
\* text give None (with a warning).
ParseScope(scope_json) ==
    IF scope_json.kind = "null" THEN <<>>
    ELSE IF scope_json.kind = "list" THEN scope_json.items
    ELSE <<>>

\* One ActionEntity built from one entry of entity_data_from_db.
ActionEntity(name, data) ==
    [name |-> name,
     base_attributes |-> data.attributes,
     potential_influences |->
         IF Has(data, "potential_influences")
         THEN data.potential_influences ELSE EmptyDict,
     scope |-> ParseScope(data.scope)]

\* load_action_entity_prototypes: the new value of ACTION_ENTITY_PROTOTYPES
load_action_entity_prototypes(entity_data_from_db) ==
    [name \in DOMAIN entity_data_from_db |->
        ActionEntity(name, entity_data_from_db[name])]

(* ----------------------------- database.py ----------------------------- *)
\* populate_initial_data.  The names stand for the cards
\*   Sha = 杀, GuoHeChaiQiao = 过河拆桥, ShunShouQianYang = 顺手牵羊,
\*   ShanDian = 闪电, Shan = 闪, Tao = 桃, and the heroes 白板1, 白板2.
entities_data ==
    ( "Sha" :> [attributes |-> AttributeSet(1, 0, 0), scope |-> JsonNull]
   @@ "GuoHeChaiQiao" :>
          [attributes |-> AttributeSet(0, 0, 1), scope |-> JsonList(<<1, 2, 3>>)]
   @@ "ShunShouQianYang" :>
          [attributes |-> AttributeSet(0, 0, 1), scope |-> JsonList(<<1, 2>>)]
   @@ "ShanDian" :> [attributes |-> AttributeSet(0, 0, 0), scope |-> JsonNull]
   @@ "Shan" :> [attributes |-> AttributeSet(0, 1, 0), scope |-> JsonNull]
   @@ "Tao" :> [attributes |-> AttributeSet(0, 0, 1), scope |-> JsonNull] )

InfluenceRow(source, target, modifier, required_scope) ==
    [source_entity_name |-> source, target_entity_name |-> target,
     modifier |-> modifier, required_scope |-> required_scope]

influences_data ==
    << InfluenceRow("GuoHeChaiQiao", "Sha", AttributeSet(1, 0, 0), Some(1)),
       InfluenceRow("GuoHeChaiQiao", "ShunShouQianYang", AttributeSet(0, 0, 1), Some(2)),
       InfluenceRow("ShunShouQianYang", "Sha", AttributeSet(1, 0, 0), Some(1)) >>

heroes_data == ("BaiBan1" :> 4 @@ "BaiBan2" :> 4)

\* No database file (or one without tables).
NoDatabase ==
    [tables |-> FALSE, entities |-> EmptyDict, influences |-> <<>>, heroes |-> EmptyDict]

\* initialize_database followed by populate_initial_data on a removed file.
PopulatedDatabase ==
    [tables |-> TRUE, entities |-> entities_data, influences |-> influences_data,
     heroes |-> heroes_data]

\* load_entities_from_db, second loop: the rows of one source grouped by
\* target, each kept as {'modifier', 'required_scope'}, in row order.
RECURSIVE InfluencesOf(_, _, _)
InfluencesOf(rows, source_name, target_name) ==
    IF rows = <<>> THEN <<>>
    ELSE LET row == Head(rows)
             rest == InfluencesOf(Tail(rows), source_name, target_name)
         IN IF row.source_entity_name = source_name
               /\ row.target_entity_name = target_name
            THEN <<[modifier |-> row.modifier,
                    required_scope |-> row.required_scope]>> \o rest
            ELSE rest

\* load_entities_from_db: name -> {'attributes', 'influences', 'scope'}.
\* (timing and the response columns are carried through unchanged and read by
\* nothing in the model.)
load_entities_from_db(database) ==
    [name \in DOMAIN database.entities |->
        [attributes |-> database.entities[name].attributes,
         influences |->
             LET targets == {database.influences[i].target_entity_name :
                               i \in {j \in 1..Len(database.influences) :
                                   database.influences[j].source_entity_name = name}}
             IN [t \in targets |-> InfluencesOf(database.influences, name, t)],
         scope |-> database.entities[name].scope]]

\* load_hero_template: the row, or None
load_hero_template(database, name) ==
    IF Has(database.heroes, name)
    THEN Some([name |-> name, max_hp |-> database.heroes[name]])
    ELSE None

(* ------------------------------ training.py ---------------------------- *)
SCOPE_KEY_NONE == "NoneScope"

\* get_scope_key: str(scope), or SCOPE_KEY_NONE for None
get_scope_key(scope) ==
    IF scope # None THEN ToString(scope[1]) ELSE SCOPE_KEY_NONE

\* initialize_influence_weights, lines 39-51: the ParameterDict of one
\* (source, target) pair, one entry per unique scope; randn gives the value
\* torch.randn draws for a parameter.
target_weights(source_name, proto, target_name, randn) ==
    LET unique_scopes == Elements(proto.potential_influences[target_name])
    IN [scope_key \in {get_scope_key(scope) : scope \in unique_scopes} |->
           randn[<<source_name, target_name, scope_key>>]]

\* (without the test that the target is one of the prototypes)
source_weights_unchecked(prototypes, source_name, randn) ==
    LET proto == prototypes[source_name]
    IN [target_name \in
           {t \in DOMAIN proto.potential_influences :
               DOMAIN target_weights(source_name, proto, t, randn) # {}} |->
           target_weights(source_name, proto, target_name, randn)]

\* initialize_influence_weights, lines 31-55: the ParameterDict of one
\* source; a target missing from the prototypes is skipped, and so is a
\* target left without any scope entry.
source_weights(prototypes, source_name, randn) ==
    LET proto == prototypes[source_name]
    IN [target_name \in
           {t \in DOMAIN proto.potential_influences :
               /\ Has(prototypes, t)
               /\ DOMAIN target_weights(source_name, proto, t, randn) # {}} |->
           target_weights(source_name, proto, target_name, randn)]

\* initialize_influence_weights: the whole table; a source without targets is
\* left out.
initialize_influence_weights(prototypes, randn) ==
    [source_name \in
        {s \in DOMAIN prototypes :
            /\ DOMAIN prototypes[s].potential_influences # {}
            /\ DOMAIN source_weights(prototypes, s, randn) # {}} |->
        source_weights(prototypes, source_name, randn)]

\* The parameters of a table, as (source, target, scope key) triples: the
\* leaves weights.parameters() walks, three scalars each.
ParamKeys(weights) ==
    UNION {UNION {{<<s, t, k>> : k \in DOMAIN weights[s][t]} :
                     t \in DOMAIN weights[s]} : s \in DOMAIN weights}

\* weights.state_dict(): parameter key -> value
state_dict(weights) ==
    [key \in ParamKeys(weights) |-> weights[key[1]][key[2]][key[3]]]

\* (the snapshot's keys that the table lacks added to it)
load_state_dict_union(weights, saved) ==
    LET keys == ParamKeys(weights) \cup DOMAIN saved
    IN [s \in {k[1] : k \in keys} |-> [t \in {k[2] : k \in {x \in keys : x[1] = s}} |->
           [k \in {x[3] : x \in {y \in keys : y[1] = s /\ y[2] = t}} |->
               IF Has(saved, <<s, t, k>>) THEN saved[<<s, t, k>>]
               ELSE weights[s][t][k]]]]

\* weights.load_state_dict(saved, strict=False): a key of the table that the
\* snapshot holds takes the snapshot's value, every other key keeps its own.
load_state_dict(weights, saved) ==
    [s \in DOMAIN weights |-> [t \in DOMAIN weights[s] |->
        [k \in DOMAIN weights[s][t] |->
            IF Has(saved, <<s, t, k>>) THEN saved[<<s, t, k>>]
            ELSE weights[s][t][k]]]]

\* ge.influence_weights is None, or a table
NoWeights == [is_none |-> TRUE, params |-> EmptyDict]
Weights(params) == [is_none |-> FALSE, params |-> params]

\* No snapshot file, one holding a state_dict, or one torch.load cannot read
NoFile == [exists |-> FALSE, readable |-> FALSE, state_dict |-> EmptyDict]
File(saved) == [exists |-> TRUE, readable |-> TRUE, state_dict |-> saved]
UnreadableFile == [exists |-> TRUE, readable |-> FALSE, state_dict |-> EmptyDict]

\* (an empty table written like any other)
save_weights_unguarded(weights, file, failure) ==
    IF failure = "none"
    THEN [file |-> File(state_dict(weights.params)), outcome |-> "saved"]
    ELSE [file |-> IF failure = "partial" THEN UnreadableFile ELSE file,
          outcome |-> "error"]

\* save_weights: a table that is None or empty is not saved (a warning); a
\* failure of torch.save is reported and leaves the file as it was
\* ("unopened") or cut short ("partial"); otherwise the file holds the
\* table's state_dict.
save_weights(weights, file, failure) ==
    IF weights.is_none \/ DOMAIN weights.params = {}
    THEN [file |-> file, outcome |-> "warning"]
    ELSE IF failure = "none"
    THEN [file |-> File(state_dict(weights.params)), outcome |-> "saved"]
    ELSE [file |-> IF failure = "partial" THEN UnreadableFile ELSE file,
          outcome |-> "error"]

\* (the overlay left out: the table stays as initialized)
load_weights_fresh(prototypes, randn, file) ==
    initialize_influence_weights(prototypes, randn)

\* load_weights: initialize, then overlay the snapshot when the file exists
\* and torch.load reads it; an exception of the load leaves the table as
\* initialized.
load_weights(prototypes, randn, file) ==
    LET weights == initialize_influence_weights(prototypes, randn)
    IN IF file.exists /\ file.readable THEN load_state_dict(weights, file.state_dict)
       ELSE weights

\* What load_weights prints about the file
load_outcome(file) ==
    IF ~file.exists THEN "not found"
    ELSE IF file.readable THEN "loaded" ELSE "error"

(* ------------------------------ inputs --------------------------------- *)
\* The values a freshly drawn or trained modifier takes in the model.
ModifierValues == {AttributeSet(-2, 0, 0), AttributeSet(0, 0, 2)}

\* The draws of torch.randn for the parameters initialize_influence_weights
\* creates for these prototypes.
ZeroDraw(prototypes) ==
    [key \in {<<s, t, get_scope_key(scope)>> :
                 s \in DOMAIN prototypes,
                 t \in UNION {DOMAIN prototypes[x].potential_influences :
                                  x \in DOMAIN prototypes},
                 scope \in UNION {UNION {Elements(prototypes[x].potential_influences[y]) :
                                             y \in DOMAIN prototypes[x].potential_influences} :
                                      x \in DOMAIN prototypes}} |->
        TensorAttributeSet]
Draws(prototypes) ==
    [ParamKeys(initialize_influence_weights(prototypes, ZeroDraw(prototypes)))
        -> ModifierValues]

\* Entity data handed to load_action_entity_prototypes by a caller that
\* builds it with the 'potential_influences' key the loader reads.
\* Scenario: A (attack 1, no scope), B (support 1, scope [1]), rule A -> B
\* at required scope 1.
ScenarioData ==
    ( "A" :> [attributes |-> AttributeSet(1, 0, 0), scope |-> JsonNull,
              potential_influences |-> ("B" :> <<Some(1)>>)]
   @@ "B" :> [attributes |-> AttributeSet(0, 0, 1), scope |-> JsonList(<<1>>),
              potential_influences |-> EmptyDict] )

\* P (support 1, scopes [1, 2]) influences Q at scope 1 (listed twice) and at
\* any scope, a target Ghost that is no entity and a target R with no scope
\* entry; Q (attack 1); R (defense -1) influences the next R at any scope.
\* Q's scope text is JSON but no list, R's is not JSON.
MixedData ==
    ( "P" :> [attributes |-> AttributeSet(0, 0, 1), scope |-> JsonList(<<1, 2>>),
              potential_influences |->
                  ( "Q" :> <<Some(1), Some(1), None>>
                 @@ "Ghost" :> <<Some(2)>>
                 @@ "R" :> <<>> )]
   @@ "Q" :> [attributes |-> AttributeSet(1, 0, 0), scope |-> JsonScalar,
              potential_influences |-> EmptyDict]
   @@ "R" :> [attributes |-> AttributeSet(0, -1, 0), scope |-> JsonInvalid,
              potential_influences |-> ("R" :> <<None>>)] )

\* S (support 1, scope [1]) influences T at required scope 1; T (attack 1, no
\* scope) influences nothing.
OrderData ==
    ( "S" :> [attributes |-> AttributeSet(0, 0, 1), scope |-> JsonList(<<1>>),
              potential_influences |-> ("T" :> <<Some(1)>>)]
   @@ "T" :> [attributes |-> AttributeSet(1, 0, 0), scope |-> JsonNull,
              potential_influences |-> EmptyDict] )

EntityDataSets == {ScenarioData, MixedData, OrderData}

\* The cards dealt into hands and sequences (main.py deals the first three
\* of the database's cards).
CardPool ==
    {"A", "B", "P", "Q", "R", "S", "T", "Sha", "GuoHeChaiQiao", "ShunShouQianYang"}

Hero(max_hp, current_hp) == [max_hp |-> max_hp, current_hp |-> current_hp]

\* (player's hero, opponent's hero): main.py's 4/4 against 2/4; a weak player;
\* a hero without hit points against one above its maximum.
Contexts ==
    { <<Hero(4, 4), Hero(4, 2)>>,
      <<Hero(4, 1), Hero(4, 4)>>,
      <<Hero(0, 0), Hero(4, 9)>> }

(* ------------------------------- state --------------------------------- *)
VARIABLES
    db,                        \* the sqlite file sgs_data.db
    ACTION_ENTITY_PROTOTYPES,  \* game_elements.ACTION_ENTITY_PROTOTYPES
    influence_weights,         \* game_elements.influence_weights
    weights_file,              \* the snapshot file influence_weights.pth
    ret,                       \* the last query, its arguments and what it returned
    last_call,                 \* the call of save_weights or load_weights that was
                               \* the last step, and what it reported
    training                   \* the call of training_loop: where it stands, its
                               \* arguments and its local variables

vars ==
    <<db, ACTION_ENTITY_PROTOTYPES, influence_weights, weights_file, ret, last_call,
      training>>

NoCall == [op |-> "none"]

\* training_loop has not been called
NotTraining == [pc |-> "idle"]

Init ==
    /\ db = NoDatabase
    /\ ACTION_ENTITY_PROTOTYPES = EmptyDict
    /\ influence_weights = NoWeights
    /\ weights_file = NoFile
    /\ ret = NoCall
    /\ last_call = NoCall
    /\ training = NotTraining

(* -------------------- training.py: the weight lookup -------------------- *)
\* (a missing parameter answered with a default modifier in place of None)
get_influence_modifier_tensor_default(source_name, target_name, scope) ==
    IF influence_weights.is_none THEN Some(AttributeSet(1, 0, 0))
    ELSE LET scope_key == get_scope_key(scope)
             params == influence_weights.params
         IN IF ~Has(params, source_name) THEN Some(AttributeSet(1, 0, 0))
            ELSE IF ~Has(params[source_name], target_name) THEN Some(AttributeSet(1, 0, 0))
            ELSE IF ~Has(params[source_name][target_name], scope_key)
                 THEN Some(AttributeSet(1, 0, 0))
            ELSE Some(params[source_name][target_name][scope_key])

\* (a table that is None answered with the zero modifier in place of None)
get_influence_modifier_tensor_zero(source_name, target_name, scope) ==
    IF influence_weights.is_none THEN Some(TensorAttributeSet)
    ELSE LET scope_key == get_scope_key(scope)
             params == influence_weights.params
         IN IF ~Has(params, source_name) THEN None
            ELSE IF ~Has(params[source_name], target_name) THEN None
            ELSE IF ~Has(params[source_name][target_name], scope_key) THEN None
            ELSE Some(params[source_name][target_name][scope_key])

\* (the lookup falling back on the parameter kept under SCOPE_KEY_NONE when
\* there is none under the scope's own key)
get_influence_modifier_tensor_any(source_name, target_name, scope) ==
    IF influence_weights.is_none THEN None
    ELSE LET scope_key == get_scope_key(scope)
             params == influence_weights.params
         IN IF ~Has(params, source_name) THEN None
            ELSE IF ~Has(params[source_name], target_name) THEN None
            ELSE IF Has(params[source_name][target_name], scope_key)
                 THEN Some(params[source_name][target_name][scope_key])
            ELSE IF Has(params[source_name][target_name], SCOPE_KEY_NONE)
                 THEN Some(params[source_name][target_name][SCOPE_KEY_NONE])
            ELSE None

\* get_influence_modifier_tensor: None when the table is None or holds no
\* parameter under source_name -> target_name -> get_scope_key(scope),
\* otherwise the parameter's values.  (The KeyError and AttributeError
\* handlers guard a malformed table; the tables built here are well formed.)
get_influence_modifier_tensor(source_name, target_name, scope) ==
    IF influence_weights.is_none THEN None
    ELSE LET scope_key == get_scope_key(scope)
             params == influence_weights.params
         IN IF ~Has(params, source_name) THEN None
            ELSE IF ~Has(params[source_name], target_name) THEN None
            ELSE IF ~Has(params[source_name][target_name], scope_key) THEN None
            ELSE Some(params[source_name][target_name][scope_key])

\* The weights taken from the wrong side: attack from the player's own
\* health, defense from the opponent's.
calculate_weights_swapped(player_hp_ratio, opponent_hp_ratio) ==
    [attack |-> (2 * player_hp_ratio[2] - player_hp_ratio[1]) * opponent_hp_ratio[2],
     defense |-> (2 * opponent_hp_ratio[2] - opponent_hp_ratio[1]) * player_hp_ratio[2],
     support |-> player_hp_ratio[2] * opponent_hp_ratio[2],
     den |-> player_hp_ratio[2] * opponent_hp_ratio[2]]

(* --------------------- game_logic.py: the evaluator -------------------- *)
\* calculate_weights: 1 + (1 - opponent ratio), 1 + (1 - player ratio), 1,
\* as numerators over the common denominator den.
calculate_weights(player_hp_ratio, opponent_hp_ratio) ==
    [attack |-> (2 * opponent_hp_ratio[2] - opponent_hp_ratio[1]) * player_hp_ratio[2],
     defense |-> (2 * player_hp_ratio[2] - player_hp_ratio[1]) * opponent_hp_ratio[2],
     support |-> player_hp_ratio[2] * opponent_hp_ratio[2],
     den |-> player_hp_ratio[2] * opponent_hp_ratio[2]]

\* (the context weights left out: every attribute weighted 1.0, the default
\* of weights.get)
evaluate_action_unweighted(action, weights, active_influence_modifier) ==
    LET effective_attributes == AttrAdd(action.base_attributes, active_influence_modifier)
    IN (effective_attributes.attack + effective_attributes.defense
        + effective_attributes.support) * weights.den

\* evaluate_action: (base + modifier) . weights
evaluate_action(action, weights, active_influence_modifier) ==
    LET effective_attributes == AttrAdd(action.base_attributes, active_influence_modifier)
    IN effective_attributes.attack * weights.attack
       + effective_attributes.defense * weights.defense
       + effective_attributes.support * weights.support

\* The defaultdict(TensorAttributeSet) of a sequence, read at every position.
NoInfluences(sequence) == [j \in 1..Len(sequence) |-> TensorAttributeSet]

\* (the scan not limited to later positions: the first action of the
\* target's name anywhere in the sequence)
FirstMatchAnywhere(sequence, j, target_entity_name) ==
    LET matches == {p \in 1..Len(sequence) : sequence[p][1].name = target_entity_name}
    IN IF matches = {} THEN 0 ELSE CHOOSE p \in matches : \A q \in matches : p <= q

\* find_best_sequence, lines 159-165: the first position from j on whose
\* action has the target's name; 0 when the scan ends without one.
RECURSIVE FirstMatch(_, _, _)
FirstMatch(sequence, j, target_entity_name) ==
    IF j > Len(sequence) THEN 0
    ELSE IF sequence[j][1].name = target_entity_name THEN j
    ELSE FirstMatch(sequence, j + 1, target_entity_name)

\* (the rule applied whatever scope was chosen at position i)
ApplyRuleAnyScope(sequence, i, target_entity_name, required_scope, influences) ==
    LET modifier_tensor ==
            get_influence_modifier_tensor(
                sequence[i][1].name, target_entity_name, required_scope)
        j == FirstMatch(sequence, i + 1, target_entity_name)
    IN IF modifier_tensor # None /\ j # 0
       THEN [influences EXCEPT ![j] = AttrAdd(@, modifier_tensor[1])]
       ELSE influences

\* find_best_sequence, lines 150-165: one rule (target, required scope) of
\* the action at position i.
ApplyRule(sequence, i, target_entity_name, required_scope, influences) ==
    IF required_scope = None \/ required_scope = sequence[i][2]
    THEN LET modifier_tensor ==
                 get_influence_modifier_tensor(
                     sequence[i][1].name, target_entity_name, required_scope)
             j == FirstMatch(sequence, i + 1, target_entity_name)
         IN IF modifier_tensor # None /\ j # 0
            THEN [influences EXCEPT ![j] = AttrAdd(@, modifier_tensor[1])]
            ELSE influences
    ELSE influences

\* find_best_sequence, line 148: every scope entry listed for one target
RECURSIVE ApplyScopes(_, _, _, _, _, _)
ApplyScopes(sequence, i, target_entity_name, possible_scopes, r, influences) ==
    IF r > Len(possible_scopes) THEN influences
    ELSE ApplyScopes(sequence, i, target_entity_name, possible_scopes, r + 1,
             ApplyRule(sequence, i, target_entity_name, possible_scopes[r], influences))

\* find_best_sequence, line 146: every target of the action at position i
RECURSIVE ApplyTargets(_, _, _, _)
ApplyTargets(sequence, i, targets, influences) ==
    IF targets = {} THEN influences
    ELSE LET t == CHOOSE x \in targets : TRUE
         IN ApplyTargets(sequence, i, targets \ {t},
                ApplyScopes(sequence, i, t,
                    sequence[i][1].potential_influences[t], 1, influences))

\* find_best_sequence, line 144: every position of the sequence
RECURSIVE ApplyPositions(_, _, _)
ApplyPositions(sequence, i, influences) ==
    IF i > Len(sequence) THEN influences
    ELSE ApplyPositions(sequence, i + 1,
             ApplyTargets(sequence, i,
                 DOMAIN sequence[i][1].potential_influences, influences))

\* find_best_sequence, first pass: skipped as a whole when the table is None
influences_in_sequence(sequence) ==
    IF ~influence_weights.is_none
    THEN ApplyPositions(sequence, 1, NoInfluences(sequence))
    ELSE NoInfluences(sequence)

\* find_best_sequence, second pass: the sum of the actions' scores
RECURSIVE SumScores(_, _, _, _)
SumScores(sequence, i, context_weights, influences) ==
    IF i > Len(sequence) THEN 0
    ELSE evaluate_action(sequence[i][1], context_weights, influences[i])
         + SumScores(sequence, i + 1, context_weights, influences)

current_total_score(sequence, context_weights) ==
    SumScores(sequence, 1, context_weights, influences_in_sequence(sequence))

(* ----------------------- game_logic.py: the search --------------------- *)
\* (a card with scope options offered without a scope as well: the option
\* left commented out at line 123)
EntityChoicesWithNone(entity) ==
    IF entity.scope # <<>>
    THEN [o \in 1..Len(entity.scope) |-> <<entity, Some(entity.scope[o])>>]
         \o << <<entity, None>> >>
    ELSE << <<entity, None>> >>

\* The choices one hand card gives: one per scope option, or the card alone.
EntityChoices(entity) ==
    IF entity.scope # <<>>
    THEN [o \in 1..Len(entity.scope) |-> <<entity, Some(entity.scope[o])>>]
    ELSE << <<entity, None>> >>

\* find_best_sequence, step 1: possible_action_choices, in hand order
RECURSIVE possible_action_choices(_)
possible_action_choices(hand) ==
    IF hand = <<>> THEN <<>>
    ELSE EntityChoices(Head(hand)) \o possible_action_choices(Tail(hand))

\* itertools.permutations(range(n), k): the k-tuples of distinct positions
\* 1..n, in the order it yields them (lexicographic by position).
RECURSIVE PermutationsFrom(_, _, _, _)
PermutationsFrom(prefix, i, n, k) ==
    IF Len(prefix) = k THEN <<prefix>>
    ELSE IF i > n THEN <<>>
    ELSE (IF i \in Elements(prefix) THEN <<>>
          ELSE PermutationsFrom(Append(prefix, i), 1, n, k))
         \o PermutationsFrom(prefix, i + 1, n, k)

permutations(n, k) == PermutationsFrom(<<>>, 1, n, k)

\* for k in range(max_k + 1): the candidates of every length from k up
RECURSIVE CandidatesFrom(_, _)
CandidatesFrom(k, max_k) ==
    IF k > max_k THEN <<>>
    ELSE permutations(max_k, k) \o CandidatesFrom(k + 1, max_k)

\* best_sequence_choices = [], max_score = -inf
\* (influences: the candidate's influences_in_sequence, a local of the loop)
NoBest ==
    [best_sequence_choices |-> <<>>, neg_inf |-> TRUE, max_score |-> 0,
     influences |-> <<>>]

\* (the comparison not strict: a tie replaces the best found so far)
ImprovesOrTies(score, best) == best.neg_inf \/ score >= best.max_score

\* (a tie-break with a memory: a tie replaces the best found so far once
\* some call has returned)
ImprovesUnstable(score, best) ==
    \/ best.neg_inf
    \/ score > best.max_score
    \/ ret # NoCall /\ score = best.max_score

\* current_total_score > max_score
Improves(score, best) == best.neg_inf \/ score > best.max_score

\* find_best_sequence, lines 137-178: the loop body for candidate number c
SearchStep(candidates, c, choices, context_weights, best) ==
    LET current_sequence_choices ==
            [p \in 1..Len(candidates[c]) |-> choices[candidates[c][p]]]
        score == current_total_score(current_sequence_choices, context_weights)
    IN IF Improves(score, best)
       THEN [best_sequence_choices |-> current_sequence_choices,
             neg_inf |-> FALSE, max_score |-> score,
             influences |-> influences_in_sequence(current_sequence_choices)]
       ELSE best

\* find_best_sequence, lines 134-178: the loop over candidates lo..hi in
\* order, starting from best.  (The range is run as its first half followed
\* by its second half, which is the same left-to-right loop.)
RECURSIVE SearchLoop(_, _, _, _, _, _)
SearchLoop(candidates, lo, hi, choices, context_weights, best) ==
    IF lo > hi THEN best
    ELSE IF lo = hi THEN SearchStep(candidates, lo, choices, context_weights, best)
    ELSE LET mid == (lo + hi) \div 2
             first_half == SearchLoop(candidates, lo, mid, choices, context_weights, best)
         IN \* (the test has the first half finish before the second starts)
            IF first_half.neg_inf
            THEN SearchLoop(candidates, mid + 1, hi, choices, context_weights, first_half)
            ELSE SearchLoop(candidates, mid + 1, hi, choices, context_weights, first_half)

\* (the loop started at length one: range(1, max_k + 1), no empty candidate)
search_candidates_nonempty(max_k) == CandidatesFrom(1, max_k)

\* (the loop bound one short: range(max_k) in place of range(max_k + 1))
search_candidates_short(max_k) == CandidatesFrom(0, max_k - 1)

\* for k in range(max_k + 1): for sequence_tuple in permutations(choices, k)
search_candidates(max_k) == CandidatesFrom(0, max_k)

find_best_sequence(player, opponent) ==
    LET context_weights ==
            calculate_weights(get_hp_ratio(player.hero), get_hp_ratio(opponent.hero))
        choices == possible_action_choices(player.hand)
        candidates == search_candidates(Len(choices))
    IN SearchLoop(candidates, 1, Len(candidates), choices, context_weights, NoBest)

(* ------------------ training.py: the differentiable scorer ------------- *)
\* evaluate_action_tensor: (base + modifier) . weights, on tensors
evaluate_action_tensor(action, context_weights, active_influence_modifier) ==
    LET effective_attributes == AttrAdd(action.base_attributes, active_influence_modifier)
    IN effective_attributes.attack * context_weights.attack
       + effective_attributes.defense * context_weights.defense
       + effective_attributes.support * context_weights.support

\* calculate_sequence_score_with_weights, lines 215-222: the first position
\* from j on whose action has the target's name; 0 without one.
RECURSIVE TensorFirstMatch(_, _, _)
TensorFirstMatch(sequence_choices, j, target_entity_name) ==
    IF j > Len(sequence_choices) THEN 0
    ELSE IF sequence_choices[j][1].name = target_entity_name THEN j
    ELSE TensorFirstMatch(sequence_choices, j + 1, target_entity_name)

\* (the scan without its break: every later occurrence of the target)
TensorApplyRuleNoBreak(sequence_choices, i, target_entity_name, required_scope, influences) ==
    IF required_scope = None \/ required_scope = sequence_choices[i][2]
    THEN LET modifier_tensor ==
                 get_influence_modifier_tensor(
                     sequence_choices[i][1].name, target_entity_name, required_scope)
         IN IF modifier_tensor # None
            THEN [j \in DOMAIN influences |->
                     IF j > i /\ sequence_choices[j][1].name = target_entity_name
                     THEN AttrAdd(influences[j], modifier_tensor[1])
                     ELSE influences[j]]
            ELSE influences
    ELSE influences

\* calculate_sequence_score_with_weights, lines 207-222: one rule
TensorApplyRule(sequence_choices, i, target_entity_name, required_scope, influences) ==
    IF required_scope = None \/ required_scope = sequence_choices[i][2]
    THEN LET modifier_tensor ==
                 get_influence_modifier_tensor(
                     sequence_choices[i][1].name, target_entity_name, required_scope)
             j == TensorFirstMatch(sequence_choices, i + 1, target_entity_name)
         IN IF modifier_tensor # None /\ j # 0
            THEN [influences EXCEPT ![j] = AttrAdd(@, modifier_tensor[1])]
            ELSE influences
    ELSE influences

\* calculate_sequence_score_with_weights, line 205
RECURSIVE TensorApplyScopes(_, _, _, _, _, _)
TensorApplyScopes(sequence_choices, i, target_entity_name, possible_scopes, r, influences) ==
    IF r > Len(possible_scopes) THEN influences
    ELSE TensorApplyScopes(sequence_choices, i, target_entity_name, possible_scopes, r + 1,
             TensorApplyRule(sequence_choices, i, target_entity_name,
                 possible_scopes[r], influences))

\* calculate_sequence_score_with_weights, line 203
RECURSIVE TensorApplyTargets(_, _, _, _)
TensorApplyTargets(sequence_choices, i, targets, influences) ==
    IF targets = {} THEN influences
    ELSE LET t == CHOOSE x \in targets : TRUE
         IN TensorApplyTargets(sequence_choices, i, targets \ {t},
                TensorApplyScopes(sequence_choices, i, t,
                    sequence_choices[i][1].potential_influences[t], 1, influences))

\* calculate_sequence_score_with_weights, line 201
RECURSIVE TensorApplyPositions(_, _, _)
TensorApplyPositions(sequence_choices, i, influences) ==
    IF i > Len(sequence_choices) THEN influences
    ELSE TensorApplyPositions(sequence_choices, i + 1,
             TensorApplyTargets(sequence_choices, i,
                 DOMAIN sequence_choices[i][1].potential_influences, influences))

\* calculate_sequence_score_with_weights, first pass
tensor_influences_in_sequence(sequence_choices) ==
    TensorApplyPositions(sequence_choices, 1, NoInfluences(sequence_choices))

\* calculate_sequence_score_with_weights, second pass
RECURSIVE TensorSumScores(_, _, _, _)
TensorSumScores(sequence_choices, i, context_weights, influences) ==
    IF i > Len(sequence_choices) THEN 0
    ELSE TensorSumScores(sequence_choices, i + 1, context_weights, influences)
         + evaluate_action_tensor(sequence_choices[i][1], context_weights, influences[i])

\* calculate_sequence_score_with_weights: an empty sequence scores 0 at once
calculate_sequence_score_with_weights(sequence_choices, player_hp_ratio, opponent_hp_ratio) ==
    IF sequence_choices = <<>> THEN 0
    ELSE TensorSumScores(sequence_choices, 1,
             calculate_weights(player_hp_ratio, opponent_hp_ratio),
             tensor_influences_in_sequence(sequence_choices))

(* ------------------------------ actions -------------------------------- *)
\* Sequences over S of length at most n
SeqsUpTo(S, n) == UNION {[1..k -> S] : k \in 0..n}

\* The catalog is loaded once in a run (it is static after load), from data a
\* caller built.  Set-up steps precede the queries: a query changes nothing
\* but ret, so every state a later set-up step could start from is one it can
\* start from before the query.  The queries read no file, and are run from
\* the states without a snapshot file.
LoadPrototypes(entity_data_from_db) ==
    /\ ret = NoCall
    /\ DOMAIN ACTION_ENTITY_PROTOTYPES = {}
    /\ ACTION_ENTITY_PROTOTYPES' = load_action_entity_prototypes(entity_data_from_db)
    /\ last_call' = NoCall
    /\ UNCHANGED <<training, db, influence_weights, weights_file, ret>>

\* initialize_influence_weights(ge.ACTION_ENTITY_PROTOTYPES)
InitializeInfluenceWeights ==
    /\ ret = NoCall
    /\ \E randn \in Draws(ACTION_ENTITY_PROTOTYPES) :
           influence_weights' =
               Weights(initialize_influence_weights(ACTION_ENTITY_PROTOTYPES, randn))
    /\ last_call' = NoCall
    /\ UNCHANGED <<training, db, ACTION_ENTITY_PROTOTYPES, weights_file, ret>>

\* load_weights(ge.ACTION_ENTITY_PROTOTYPES)
LoadWeights ==
    /\ ret = NoCall
    /\ \E randn \in Draws(ACTION_ENTITY_PROTOTYPES) :
           influence_weights' =
               Weights(load_weights(ACTION_ENTITY_PROTOTYPES, randn, weights_file))
    /\ last_call' = [op |-> "load_weights", outcome |-> load_outcome(weights_file)]
    /\ UNCHANGED <<training, db, ACTION_ENTITY_PROTOTYPES, weights_file, ret>>

\* save_weights(ge.influence_weights)
SaveWeights ==
    /\ ret = NoCall
    /\ \E failure \in {"none", "unopened", "partial"} :
           \E saved \in {save_weights(influence_weights, weights_file, failure)} :
               /\ weights_file' = saved.file
               /\ last_call' = [op |-> "save_weights", outcome |-> saved.outcome]
    /\ UNCHANGED <<training, db, ACTION_ENTITY_PROTOTYPES, influence_weights, ret>>

\* A snapshot another run left under the same name: for a catalog that
\* shares one rule with MixedData.
ForeignSnapshot ==
    File(<<"P", "Q", "1">> :> AttributeSet(0, 3, 0)
         @@ <<"P", "Zed", "NoneScope">> :> AttributeSet(3, 0, 0))

\* The snapshot file is replaced from outside the program: by a file
\* torch.load cannot read, or by another run's snapshot.
ReplaceSnapshot ==
    /\ ret = NoCall
    /\ weights_file' \in {UnreadableFile, ForeignSnapshot}
    /\ last_call' = NoCall
    /\ UNCHANGED <<training, db, ACTION_ENTITY_PROTOTYPES, influence_weights, ret>>

\* main.initialize_system: the database is loaded, or rebuilt when it has no
\* tables, no entity or no hero BaiBan1; the prototypes are loaded from it;
\* the weights are loaded.
InitializeSystem ==
    /\ ret = NoCall
    /\ LET valid == /\ db.tables
                    /\ DOMAIN load_entities_from_db(db) # {}
                    /\ load_hero_template(db, "BaiBan1") # None
           database == IF valid THEN db ELSE PopulatedDatabase
           all_entity_data == load_entities_from_db(database)
           prototypes == load_action_entity_prototypes(all_entity_data)
       IN /\ db' = database
          /\ ACTION_ENTITY_PROTOTYPES' = prototypes
          /\ \E randn \in Draws(prototypes) :
                 influence_weights' = Weights(load_weights(prototypes, randn, weights_file))
    /\ last_call' = NoCall
    /\ UNCHANGED <<training, weights_file, ret>>

\* get_action_entity_instance for each card name: the hand holds the prototypes
Hands ==
    {[c \in DOMAIN names |-> ACTION_ENTITY_PROTOTYPES[names[c]]] :
        names \in SeqsUpTo(CardPool \cap DOMAIN ACTION_ENTITY_PROTOTYPES, MaxHand)}

\* (a search that consumes what it reads: the cards it tried taken off the
\* hand, every parameter accumulated into in place)
after_find_best_sequence_consuming(player, opponent) ==
    [influence_weights |->
         [influence_weights EXCEPT !.params =
             [s \in DOMAIN @ |-> [t \in DOMAIN @[s] |-> [k \in DOMAIN @[s][t] |->
                 AttrAdd(@[s][t][k], AttributeSet(1, 1, 1))]]]],
     ACTION_ENTITY_PROTOTYPES |-> ACTION_ENTITY_PROTOTYPES,
     player |-> [player EXCEPT !.hand = <<>>],
     opponent |-> opponent]

\* What a call of find_best_sequence leaves in the objects it can reach.  It
\* binds locals only (possible_action_choices, current_sequence_choices,
\* influences_in_sequence, the totals); get_influence_modifier_tensor reads
\* the table with .get and .squeeze; influences_in_sequence[j] += modifier
\* goes through TensorAttributeSet.__add__, which builds new tensors, and
\* evaluate_action reads with .detach().item(): the table, the catalog, the
\* player and the opponent are as the call found them.
after_find_best_sequence(player, opponent) ==
    [influence_weights |-> influence_weights,
     ACTION_ENTITY_PROTOTYPES |-> ACTION_ENTITY_PROTOTYPES,
     player |-> player,
     opponent |-> opponent]

\* find_best_sequence(player, opponent)
FindBestSequence ==
    /\ ret = NoCall
    /\ weights_file = NoFile
    /\ \E hand \in Hands, heroes \in Contexts :
           LET player == [hero |-> heroes[1], hand |-> hand]
               opponent == [hero |-> heroes[2], hand |-> <<>>]
           IN /\ Len(possible_action_choices(hand)) <= MaxChoices
              /\ \E best \in {find_best_sequence(player, opponent)},
                    after \in {after_find_best_sequence(player, opponent)} :
                     /\ ret' = [op |-> "find_best_sequence", outcome |-> "returned",
                                player |-> player, opponent |-> opponent,
                                player_after |-> after.player,
                                opponent_after |-> after.opponent,
                                best_sequence_choices |-> best.best_sequence_choices,
                                max_score |-> best.max_score,
                                score_den |->
                                    calculate_weights(get_hp_ratio(player.hero),
                                        get_hp_ratio(opponent.hero)).den,
                                influences |-> best.influences]
                     /\ influence_weights' = after.influence_weights
                     /\ ACTION_ENTITY_PROTOTYPES' = after.ACTION_ENTITY_PROTOTYPES
    /\ last_call' = NoCall
    /\ UNCHANGED <<training, db, weights_file>>

\* find_best_sequence(player, opponent) called a second time with the
\* player and opponent objects of the call that has just returned
RepeatFindBestSequence ==
    /\ ret.op = "find_best_sequence"
    /\ \E again \in {find_best_sequence(ret.player_after, ret.opponent_after)},
          after \in {after_find_best_sequence(ret.player_after, ret.opponent_after)} :
           /\ ret' = [op |-> "find_best_sequence twice", outcome |-> "returned",
                      player |-> ret.player, opponent |-> ret.opponent,
                      player_after |-> after.player,
                      opponent_after |-> after.opponent,
                      first_sequence |-> ret.best_sequence_choices,
                      first_score |-> ret.max_score,
                      best_sequence_choices |-> again.best_sequence_choices,
                      max_score |-> again.max_score]
           /\ influence_weights' = after.influence_weights
           /\ ACTION_ENTITY_PROTOTYPES' = after.ACTION_ENTITY_PROTOTYPES
    /\ last_call' = NoCall
    /\ UNCHANGED <<training, db, weights_file>>

\* The (entity, scope) pairs of sequences scored directly: a card of the
\* pool with one of its scope options or with None (training samples carry
\* both).
SequenceChoices ==
    UNION {{<<ACTION_ENTITY_PROTOTYPES[n], sc>> :
               sc \in {None} \cup {Some(o) : o \in Elements(ACTION_ENTITY_PROTOTYPES[n].scope)}} :
           n \in CardPool \cap DOMAIN ACTION_ENTITY_PROTOTYPES}

\* calculate_sequence_score_with_weights(sequence_choices, ratios)
ScoreSequence ==
    /\ ret = NoCall
    /\ weights_file = NoFile
    /\ \E sequence_choices \in SeqsUpTo(SequenceChoices, MaxSeqLen), heroes \in Contexts :
           ret' = [op |-> "calculate_sequence_score_with_weights", outcome |-> "returned",
                   sequence_choices |-> sequence_choices,
                   player_hp_ratio |-> get_hp_ratio(heroes[1]),
                   opponent_hp_ratio |-> get_hp_ratio(heroes[2]),
                   influences |-> tensor_influences_in_sequence(sequence_choices),
                   score |-> calculate_sequence_score_with_weights(sequence_choices,
                                 get_hp_ratio(heroes[1]), get_hp_ratio(heroes[2]))]
    /\ last_call' = NoCall
    /\ UNCHANGED <<training, db, ACTION_ENTITY_PROTOTYPES, influence_weights, weights_file>>

\* The names and scopes looked up: the catalog's names, a name that is no
\* entity, and the scopes the data uses.
LookupNames == DOMAIN ACTION_ENTITY_PROTOTYPES \cup {"Ghost"}
LookupScopes == {None, Some(1), Some(2), Some(3)}

\* get_influence_modifier_tensor(source_name, target_name, scope)
Lookup ==
    /\ ret = NoCall
    /\ weights_file = NoFile
    /\ \E source_name \in LookupNames, target_name \in LookupNames, scope \in LookupScopes :
           ret' = [op |-> "get_influence_modifier_tensor", outcome |-> "returned",
                   source_name |-> source_name, target_name |-> target_name,
                   scope |-> scope,
                   result |-> get_influence_modifier_tensor(source_name, target_name, scope)]
    /\ last_call' = NoCall
    /\ UNCHANGED <<training, db, ACTION_ENTITY_PROTOTYPES, influence_weights, weights_file>>

Next ==
    \/ \E entity_data_from_db \in EntityDataSets : LoadPrototypes(entity_data_from_db)
    \/ InitializeInfluenceWeights
    \/ LoadWeights
    \/ SaveWeights
    \/ ReplaceSnapshot
    \/ InitializeSystem
    \/ FindBestSequence
    \/ RepeatFindBestSequence
    \/ ScoreSequence
    \/ Lookup

Spec == Init /\ [][Next]_vars

(* ---------------------- training.py: the training loop ----------------- *)
\* Exact fractions <<numerator, denominator>> in lowest terms, denominator
\* positive: the values of the loss tensors and of the floats made of them.
RECURSIVE GCD(_, _)
GCD(a, b) == IF b = 0 THEN a ELSE GCD(b, a % b)

Abs(x) == IF x < 0 THEN -x ELSE x
Sign(x) == IF x > 0 THEN 1 ELSE IF x < 0 THEN -1 ELSE 0

Frac(n, d) ==
    LET g == GCD(Abs(n), d) IN <<n \div g, d \div g>>

\* torch.tensor(0.0) and 0.0
FracZero == <<0, 1>>
\* x + y
FracAdd(x, y) == Frac(x[1] * y[2] + y[1] * x[2], x[2] * y[2])
\* x * n for an integer n
FracTimes(x, n) == Frac(x[1] * n, x[2])
\* x / n for a positive integer n
FracOver(x, n) == Frac(x[1], x[2] * n)

\* game_elements.get_action_entity_instance: the prototype of the global
\* catalog; None stands for the ValueError raised for a missing name.
get_action_entity_instance(name) ==
    IF Has(ACTION_ENTITY_PROTOTYPES, name)
    THEN Some(ACTION_ENTITY_PROTOTYPES[name]) ELSE None

\* (a missing scope refused for an action that has scope options)
RECURSIVE ResolveEntriesStrict(_, _, _)
ResolveEntriesStrict(seq_name_scope_list, n, sequence_choices) ==
    IF n > Len(seq_name_scope_list)
    THEN [valid_sequence |-> TRUE, sequence_choices |-> sequence_choices]
    ELSE LET name == seq_name_scope_list[n][1]
             scope == seq_name_scope_list[n][2]
             entity == get_action_entity_instance(name)
         IN IF entity = None
            THEN [valid_sequence |-> FALSE, sequence_choices |-> sequence_choices]
            ELSE IF IF scope # None
                    THEN entity[1].scope = <<>> \/ scope[1] \notin Elements(entity[1].scope)
                    ELSE entity[1].scope # <<>>
            THEN [valid_sequence |-> FALSE, sequence_choices |-> sequence_choices]
            ELSE ResolveEntriesStrict(seq_name_scope_list, n + 1,
                     Append(sequence_choices, <<entity[1], scope>>))

\* training_loop, lines 339-354: the names of a sample resolved to entities
\* from entry n on.  A missing name (ValueError) and a scope that is not None
\* and not among the entity's scopes end the loop with valid_sequence False.
RECURSIVE ResolveEntries(_, _, _)
ResolveEntries(seq_name_scope_list, n, sequence_choices) ==
    IF n > Len(seq_name_scope_list)
    THEN [valid_sequence |-> TRUE, sequence_choices |-> sequence_choices]
    ELSE LET name == seq_name_scope_list[n][1]
             scope == seq_name_scope_list[n][2]
             entity == get_action_entity_instance(name)
         IN IF entity = None
            THEN [valid_sequence |-> FALSE, sequence_choices |-> sequence_choices]
            ELSE IF scope # None
                    /\ (entity[1].scope = <<>> \/ scope[1] \notin Elements(entity[1].scope))
            THEN [valid_sequence |-> FALSE, sequence_choices |-> sequence_choices]
            ELSE ResolveEntries(seq_name_scope_list, n + 1,
                     Append(sequence_choices, <<entity[1], scope>>))

\* training_loop, lines 356-369: the loss of one sample, -outcome * score with
\* the current weights, or None for a sample that is skipped (not valid, or
\* without choices).
sample_loss(sample) ==
    LET resolved == ResolveEntries(sample.sequence, 1, <<>>)
    IN IF ~resolved.valid_sequence \/ resolved.sequence_choices = <<>> THEN None
       ELSE Some(Frac(
                -sample.outcome
                    * calculate_sequence_score_with_weights(resolved.sequence_choices,
                          sample.state.player_hp_ratio, sample.state.opponent_hp_ratio),
                calculate_weights(sample.state.player_hp_ratio,
                    sample.state.opponent_hp_ratio).den))

\* (a skipped sample counted as valid, with a loss of 0)
RECURSIVE BatchLoopCountingAll(_, _, _)
BatchLoopCountingAll(batch, n, acc) ==
    IF n > Len(batch) THEN acc
    ELSE LET loss == sample_loss(batch[n])
         IN BatchLoopCountingAll(batch, n + 1,
                [batch_loss |->
                     IF loss = None THEN acc.batch_loss
                     ELSE FracAdd(acc.batch_loss, loss[1]),
                 valid_samples_in_batch |-> acc.valid_samples_in_batch + 1])

\* training_loop, lines 334-380: the loop over a batch from sample n on.  The
\* score of a sequence that is not empty always requires grad (its
\* initial_score does), so every sample that is not skipped is added.
RECURSIVE BatchLoop(_, _, _)
BatchLoop(batch, n, acc) ==
    IF n > Len(batch) THEN acc
    ELSE LET loss == sample_loss(batch[n])
         IN BatchLoop(batch, n + 1,
                IF loss = None THEN acc
                ELSE [batch_loss |-> FracAdd(acc.batch_loss, loss[1]),
                      valid_samples_in_batch |-> acc.valid_samples_in_batch + 1])

\* (the mean taken over the whole batch)
avg_batch_loss_of_all(batch) ==
    LET sums == BatchLoop(batch, 1, [batch_loss |-> FracZero, valid_samples_in_batch |-> 0])
    IN [valid_samples_in_batch |-> sums.valid_samples_in_batch,
        avg_batch_loss |->
            IF sums.valid_samples_in_batch > 0
            THEN FracOver(sums.batch_loss, Len(batch))
            ELSE FracZero]

\* training_loop, lines 334-385: the valid samples of a batch and their mean
\* loss (a batch without a valid sample has none: 0 here).
avg_batch_loss_of(batch) ==
    LET sums == BatchLoop(batch, 1, [batch_loss |-> FracZero, valid_samples_in_batch |-> 0])
    IN [valid_samples_in_batch |-> sums.valid_samples_in_batch,
        avg_batch_loss |->
            IF sums.valid_samples_in_batch > 0
            THEN FracOver(sums.batch_loss, sums.valid_samples_in_batch)
            ELSE FracZero]

\* Autograd.  A score is linear in the parameters: the derivative of a
\* sequence's score by one attribute of the parameter key = (source, target,
\* scope key) is the context weight of the attribute times the number of
\* times the first pass added the parameter (lines 201-222: a rule of the
\* source at position i whose required scope is None or the chosen one, with
\* an occurrence of the target after i).
Applications(sequence_choices, key) ==
    LET rules(i) ==
            IF sequence_choices[i][1].name = key[1]
               /\ Has(sequence_choices[i][1].potential_influences, key[2])
            THEN sequence_choices[i][1].potential_influences[key[2]] ELSE <<>>
    IN Cardinality(
           {e \in UNION {{<<i, r>> : r \in 1..Len(rules(i))} :
                            i \in 1..Len(sequence_choices)} :
               LET required_scope == rules(e[1])[e[2]]
               IN /\ get_scope_key(required_scope) = key[3]
                  /\ required_scope = None \/ required_scope = sequence_choices[e[1]][2]
                  /\ TensorFirstMatch(sequence_choices, e[1] + 1, key[2]) # 0})

\* The gradient of the summed loss of a batch, from sample n on, by the three
\* attributes of one parameter.
RECURSIVE SumGradient(_, _, _)
SumGradient(batch, n, key) ==
    IF n > Len(batch) THEN [attack |-> FracZero, defense |-> FracZero, support |-> FracZero]
    ELSE LET rest == SumGradient(batch, n + 1, key)
             resolved == ResolveEntries(batch[n].sequence, 1, <<>>)
             context_weights ==
                 calculate_weights(batch[n].state.player_hp_ratio,
                     batch[n].state.opponent_hp_ratio)
             times == -batch[n].outcome * Applications(resolved.sequence_choices, key)
         IN IF sample_loss(batch[n]) = None THEN rest
            ELSE [attack |->
                      FracAdd(rest.attack,
                          Frac(times * context_weights.attack, context_weights.den)),
                  defense |->
                      FracAdd(rest.defense,
                          Frac(times * context_weights.defense, context_weights.den)),
                  support |->
                      FracAdd(rest.support,
                          Frac(times * context_weights.support, context_weights.den))]

\* optimizer.zero_grad() and avg_batch_loss.backward(): the parameters the
\* batch's valid samples used get a gradient, the others have none (None).
backward(batch, valid_samples_in_batch) ==
    LET in_graph ==
            {key \in ParamKeys(influence_weights.params) :
                \E n \in 1..Len(batch) :
                    /\ sample_loss(batch[n]) # None
                    /\ Applications(
                           ResolveEntries(batch[n].sequence, 1, <<>>).sequence_choices,
                           key) > 0}
    IN [key \in in_graph |->
           LET sum == SumGradient(batch, 1, key)
           IN [attack |-> FracOver(sum.attack, valid_samples_in_batch),
               defense |-> FracOver(sum.defense, valid_samples_in_batch),
               support |-> FracOver(sum.support, valid_samples_in_batch)]]

\* optim.Adam(weights.parameters(), lr): no running average yet
Adam(params, lr) ==
    [lr |-> lr,
     exp_avg |-> [key \in ParamKeys(params) |->
                     [attack |-> FracZero, defense |-> FracZero, support |-> FracZero]]]

\* Adam, the running average of one attribute's gradients (beta1 = 0.9)
ExpAvg(m, g) == FracOver(FracAdd(FracTimes(m, 9), g), 10)

\* (gradient ascent: the parameters moved along the sign of the running
\* average of their gradients)
optimizer_step_ascent(params, grads, optimizer) ==
    LET exp_avg ==
            [key \in DOMAIN optimizer.exp_avg |->
                IF Has(grads, key)
                THEN [attack |-> ExpAvg(optimizer.exp_avg[key].attack, grads[key].attack),
                      defense |-> ExpAvg(optimizer.exp_avg[key].defense, grads[key].defense),
                      support |-> ExpAvg(optimizer.exp_avg[key].support, grads[key].support)]
                ELSE optimizer.exp_avg[key]]
        move(key, m) == IF Has(grads, key) THEN Sign(optimizer.lr) * Sign(m[1]) ELSE 0
    IN [optimizer |-> [optimizer EXCEPT !.exp_avg = exp_avg],
        params |->
            [s \in DOMAIN params |-> [t \in DOMAIN params[s] |->
                [k \in DOMAIN params[s][t] |->
                    AttributeSet(
                        params[s][t][k].attack + move(<<s, t, k>>, exp_avg[<<s, t, k>>].attack),
                        params[s][t][k].defense + move(<<s, t, k>>, exp_avg[<<s, t, k>>].defense),
                        params[s][t][k].support
                            + move(<<s, t, k>>, exp_avg[<<s, t, k>>].support))]]]]

\* optimizer.step().  A parameter without a gradient is skipped.  The others
\* move against the sign of the running average of their gradients; the size
\* of Adam's move (about lr) is one unit in the model, and none for lr = 0.
optimizer_step(params, grads, optimizer) ==
    LET exp_avg ==
            [key \in DOMAIN optimizer.exp_avg |->
                IF Has(grads, key)
                THEN [attack |-> ExpAvg(optimizer.exp_avg[key].attack, grads[key].attack),
                      defense |-> ExpAvg(optimizer.exp_avg[key].defense, grads[key].defense),
                      support |-> ExpAvg(optimizer.exp_avg[key].support, grads[key].support)]
                ELSE optimizer.exp_avg[key]]
        move(key, m) == IF Has(grads, key) THEN Sign(optimizer.lr) * Sign(m[1]) ELSE 0
    IN [optimizer |-> [optimizer EXCEPT !.exp_avg = exp_avg],
        params |->
            [s \in DOMAIN params |-> [t \in DOMAIN params[s] |->
                [k \in DOMAIN params[s][t] |->
                    AttributeSet(
                        params[s][t][k].attack - move(<<s, t, k>>, exp_avg[<<s, t, k>>].attack),
                        params[s][t][k].defense - move(<<s, t, k>>, exp_avg[<<s, t, k>>].defense),
                        params[s][t][k].support
                            - move(<<s, t, k>>, exp_avg[<<s, t, k>>].support))]]]]

(* ------------------------- training inputs ----------------------------- *)
\* Samples in a generated training set.
MaxSamples == 2
\* Size of a batch.
MaxBatch == 2
\* Epochs of a run.
MaxEpochs == 2
\* Epochs of a long run, made on a single sample (one past the fifth, after
\* which the first periodic save is due).
MaxLongEpochs == 6
\* Optimizer steps of a run: the running averages are kept exactly, and their
\* denominators grow tenfold with every step.
MaxSteps == 6

\* A catalog handed to training_loop that is not the loaded one (an older
\* edit of MixedData): P with scopes [1, 3], Q with scope [1], and Zed.
StaleData ==
    ( "P" :> [attributes |-> AttributeSet(0, 0, 1), scope |-> JsonList(<<1, 3>>),
              potential_influences |-> ("Q" :> <<Some(1)>>)]
   @@ "Q" :> [attributes |-> AttributeSet(1, 0, 0), scope |-> JsonList(<<1>>),
              potential_influences |-> EmptyDict]
   @@ "Zed" :> [attributes |-> AttributeSet(0, 1, 0), scope |-> JsonNull,
                potential_influences |-> EmptyDict] )

\* The health ratios of a sample's state: random.uniform(0.1, 1.0), twice.
SampleStates ==
    { [player_hp_ratio |-> <<1, 2>>, opponent_hp_ratio |-> <<2, 2>>] }

\* The (name, scope) sequences the model lets the generator draw.
TrainingSequences ==
    { << <<"P", Some(1)>>, <<"Q", None>> >>,
      << <<"P", None>>, <<"Q", None>> >>,
      << <<"R", None>>, <<"R", None>> >>,
      << <<"Q", None>> >>,
      << <<"P", Some(3)>> >>,
      << <<"P", Some(1)>>, <<"Zed", None>> >>,
      << <<"P", Some(1)>>, <<"Q", Some(1)>> >>,
      << <<"A", None>>, <<"B", Some(1)>> >>,
      << <<"B", None>> >>,
      << <<"S", Some(1)>>, <<"T", None>> >>,
      << <<"T", None>>, <<"S", Some(1)>> >>,
      << <<"T", None>> >> }

\* generate_dummy_training_data, lines 254-281: one to three names of the
\* prototypes, each with one of its scopes or with None.
DummySequences(prototypes) ==
    {sequence \in TrainingSequences :
        /\ Len(sequence) <= Cardinality(DOMAIN prototypes)
        /\ Len(sequence) <= 3
        /\ \A n \in 1..Len(sequence) :
               /\ Has(prototypes, sequence[n][1])
               /\ \/ sequence[n][2] = None
                  \/ sequence[n][2][1] \in Elements(prototypes[sequence[n][1]].scope)}

\* generate_dummy_training_data: the lists it can return.  No prototypes give
\* the empty list; num_samples below 1 gives it too (range(num_samples)).
generate_dummy_training_data(num_samples, prototypes) ==
    IF DOMAIN prototypes = {} THEN {<<>>}
    ELSE [1..num_samples ->
             {[state |-> state, sequence |-> sequence, outcome |-> outcome] :
                 state \in SampleStates, sequence \in DummySequences(prototypes),
                 outcome \in {1, -1}}]

\* The arguments of training_loop: learning_rate in hundredths.  Positive
\* ones, long runs on one sample, and each of the four in turn zero or
\* negative.
TrainingArguments ==
    {[num_epochs |-> e, learning_rate |-> 1, batch_size |-> b, num_dummy_samples |-> s] :
        e \in 1..MaxEpochs, b \in 1..MaxBatch, s \in 1..MaxSamples}
    \cup {[num_epochs |-> e, learning_rate |-> 1, batch_size |-> MaxBatch,
           num_dummy_samples |-> 1] : e \in (MaxLongEpochs - 1)..MaxLongEpochs}
    \cup {[num_epochs |-> e, learning_rate |-> 1, batch_size |-> MaxBatch,
           num_dummy_samples |-> MaxSamples] : e \in {0, -1}}
    \cup {[num_epochs |-> 1, learning_rate |-> l, batch_size |-> MaxBatch,
           num_dummy_samples |-> MaxSamples] : l \in {0, -1}}
    \cup {[num_epochs |-> 1, learning_rate |-> 1, batch_size |-> b,
           num_dummy_samples |-> MaxSamples] : b \in {0, -1}}
    \cup {[num_epochs |-> 1, learning_rate |-> 1, batch_size |-> MaxBatch,
           num_dummy_samples |-> s] : s \in {0, -1}}

\* The draws of torch.randn in a training run: one value for all parameters.
TrainingDraws(prototypes) ==
    {[key \in DOMAIN ZeroDraw(prototypes) |-> v] : v \in ModifierValues}

(* ------------------------- training actions ---------------------------- *)
\* The catalog training_loop is handed: the loaded one (as main.py does), or
\* one a caller built from other data.
StalePrototypes == load_action_entity_prototypes(StaleData)

\* The printed report of an epoch: none yet, the average loss, or "No valid
\* samples processed."
NoReport == [kind |-> "none", avg_epoch_loss |-> FracZero]

\* training_loop called with these arguments; its locals before any is set.
Called(prototypes, arguments) ==
    [pc |-> "called", report |-> "",
     prototypes |-> prototypes,
     num_epochs |-> arguments.num_epochs, learning_rate |-> arguments.learning_rate,
     batch_size |-> arguments.batch_size,
     num_dummy_samples |-> arguments.num_dummy_samples,
     optimizer |-> Adam(EmptyDict, 0), training_data |-> <<>>,
     \* the parameter values as load_weights returned them, before any step
     \* (kept for comparison: the code keeps no copy)
     initial_weights |-> EmptyDict,
     epoch |-> 0, i |-> 0, epoch_loss |-> FracZero, num_batches |-> 0,
     processed_samples |-> 0,
     \* the last batch, its valid samples and its mean loss
     batch |-> <<>>, valid_samples_in_batch |-> 0, avg_batch_loss |-> FracZero,
     \* the loss of every sample added to a batch_loss in this epoch
     losses |-> <<>>,
     \* the calls of optimizer.step() and of save_weights in this run
     steps |-> 0, saves |-> 0,
     epoch_report |-> NoReport]

\* training_loop, lines 303-322: the weights are loaded (and become the
\* global table); without a parameter the run is aborted; Adam refuses a
\* negative learning rate (ValueError); the data is generated; without data
\* the run is aborted; for epoch in range(num_epochs) ends at once for
\* num_epochs below 1.
TrainingLoop ==
    /\ ret = NoCall
    /\ training = NotTraining
    /\ \E prototypes \in {ACTION_ENTITY_PROTOTYPES, StalePrototypes},
          arguments \in TrainingArguments :
           \E randn \in TrainingDraws(prototypes) :
               \E weights \in {load_weights(prototypes, randn, weights_file)},
                  call \in {Called(prototypes, arguments)} :
                   /\ influence_weights' = Weights(weights)
                   /\ IF ParamKeys(weights) = {}
                      THEN training' =
                               [call EXCEPT !.pc = "returned", !.report = "abort: weights"]
                      ELSE IF arguments.learning_rate < 0
                      THEN training' =
                               [call EXCEPT !.pc = "raised", !.report = "ValueError: lr"]
                      ELSE \E training_data \in
                                  generate_dummy_training_data(
                                      arguments.num_dummy_samples, prototypes) :
                               training' =
                                   [call EXCEPT
                                       !.optimizer = Adam(weights, arguments.learning_rate),
                                       !.initial_weights = weights,
                                       !.training_data = training_data,
                                       !.pc = IF training_data = <<>> THEN "returned"
                                              ELSE IF arguments.num_epochs < 1
                                              THEN "returned" ELSE "epoch",
                                       !.report = IF training_data = <<>>
                                                  THEN "abort: no data" ELSE ""]
    /\ last_call' = [op |-> "load_weights", outcome |-> load_outcome(weights_file)]
    /\ UNCHANGED <<db, ACTION_ENTITY_PROTOTYPES, weights_file, ret>>

\* training_loop, lines 324-330: an epoch begins.  The data is shuffled in
\* place, the epoch's sums are reset; range(0, len, batch_size) raises
\* ValueError for a batch_size of 0.
BeginEpoch ==
    /\ training.pc = "epoch"
    /\ \E order \in Elements(permutations(Len(training.training_data),
                                 Len(training.training_data))) :
           training' =
               [training EXCEPT
                   !.training_data = [p \in DOMAIN order |-> training.training_data[order[p]]],
                   !.epoch_loss = FracZero, !.num_batches = 0, !.processed_samples = 0,
                   !.losses = <<>>, !.i = 0,
                   !.batch = <<>>, !.valid_samples_in_batch = 0,
                   !.avg_batch_loss = FracZero,
                   !.epoch_report = NoReport,
                   !.pc = IF training.batch_size = 0 THEN "raised" ELSE "batch",
                   !.report = IF training.batch_size = 0
                              THEN "ValueError: range" ELSE ""]
    /\ last_call' = NoCall
    /\ UNCHANGED <<db, ACTION_ENTITY_PROTOTYPES, influence_weights, weights_file, ret>>

\* i in range(0, len(training_data), batch_size): a negative step gives an
\* empty range
InRange(i, length, step) == step > 0 /\ i < length

\* training_data[i:i+batch_size]
Slice(list, i, size) ==
    SubSeq(list, i + 1, IF i + size < Len(list) THEN i + size ELSE Len(list))

\* The losses added to batch_loss, in order (line 374)
RECURSIVE BatchLosses(_, _)
BatchLosses(batch, n) ==
    IF n > Len(batch) THEN <<>>
    ELSE LET loss == sample_loss(batch[n])
         IN (IF loss = None THEN <<>> ELSE <<loss[1]>>) \o BatchLosses(batch, n + 1)

\* training_loop, lines 331-392: one batch.  With a valid sample its mean
\* loss is back-propagated, the optimizer steps and the epoch's sums grow;
\* without one nothing is done.
TrainBatch ==
    /\ training.pc = "batch"
    /\ InRange(training.i, Len(training.training_data), training.batch_size)
    /\ training.steps < MaxSteps
    /\ \E batch \in {Slice(training.training_data, training.i, training.batch_size)} :
           \E sums \in {avg_batch_loss_of(batch)} :
               IF sums.valid_samples_in_batch > 0
               THEN \E stepped \in
                           {optimizer_step(influence_weights.params,
                                backward(batch, sums.valid_samples_in_batch),
                                training.optimizer)} :
                        /\ influence_weights' = Weights(stepped.params)
                        /\ training' =
                               [training EXCEPT
                                   !.batch = batch,
                                   !.valid_samples_in_batch = sums.valid_samples_in_batch,
                                   !.avg_batch_loss = sums.avg_batch_loss,
                                   !.optimizer = stepped.optimizer,
                                   !.steps = @ + 1,
                                   !.epoch_loss =
                                       FracAdd(@, FracTimes(sums.avg_batch_loss,
                                                      sums.valid_samples_in_batch)),
                                   !.num_batches = @ + 1,
                                   !.processed_samples = @ + sums.valid_samples_in_batch,
                                   !.losses = @ \o BatchLosses(batch, 1),
                                   !.i = @ + training.batch_size]
               ELSE /\ influence_weights' = influence_weights
                    /\ training' =
                           [training EXCEPT
                               !.batch = batch,
                               !.valid_samples_in_batch = 0,
                               !.avg_batch_loss = FracZero,
                               !.i = @ + training.batch_size]
    /\ last_call' = NoCall
    /\ UNCHANGED <<db, ACTION_ENTITY_PROTOTYPES, weights_file, ret>>

\* (the periodic save left out: a save after the last epoch only)
save_due_last_only(epoch, num_epochs) == epoch = num_epochs - 1

\* training_loop, line 403: (epoch + 1) % 5 == 0 or epoch == num_epochs - 1
save_due(epoch, num_epochs) == (epoch + 1) % 5 = 0 \/ epoch = num_epochs - 1

\* training_loop, lines 395-405: the epoch's report, and the save after
\* every fifth epoch and after the last one (a failure of torch.save is
\* caught by save_weights); then the next epoch, or the return.
EndEpoch ==
    /\ training.pc = "batch"
    /\ ~InRange(training.i, Len(training.training_data), training.batch_size)
    /\ \E failure \in {"none", "unopened", "partial"} :
           LET saving ==
                   /\ save_due(training.epoch, training.num_epochs)
                   /\ DOMAIN influence_weights.params # {}
               saved == save_weights(influence_weights, weights_file, failure)
           IN /\ saving \/ failure = "none"
              /\ weights_file' = IF saving THEN saved.file ELSE weights_file
              /\ last_call' =
                     IF saving THEN [op |-> "save_weights", outcome |-> saved.outcome]
                     ELSE NoCall
              /\ training' =
                     [training EXCEPT
                         !.epoch_report =
                             IF training.processed_samples > 0
                             THEN [kind |-> "average",
                                   avg_epoch_loss |->
                                       FracOver(training.epoch_loss,
                                           training.processed_samples)]
                             ELSE [kind |-> "no valid", avg_epoch_loss |-> FracZero],
                         !.saves = IF saving THEN @ + 1 ELSE @,
                         !.epoch = @ + 1,
                         !.pc = IF training.epoch + 1 < training.num_epochs
                                THEN "epoch" ELSE "returned"]
    /\ UNCHANGED <<db, ACTION_ENTITY_PROTOTYPES, influence_weights, ret>>

TrainNext ==
    \/ /\ training = NotTraining
       /\ \E entity_data_from_db \in EntityDataSets : LoadPrototypes(entity_data_from_db)
    \/ TrainingLoop
    \/ BeginEpoch
    \/ TrainBatch
    \/ EndEpoch

\* A run of training_loop on a loaded (or missing) catalog, no snapshot file
\* at its start.
TrainSpec == Init /\ [][TrainNext]_vars

(* ------------------ the context weights on their own ------------------- *)
\* Largest max_hp of a hero handed to calculate_weights.
MaxHp == 3

\* Heroes of every max_hp up to the bound, with a current_hp from one below
\* zero to one above max_hp: Hero.__init__ checks neither.
Heroes == {Hero(max_hp, current_hp) : max_hp \in 0..MaxHp, current_hp \in -1..(MaxHp + 1)}

\* One call of calculate_weights on the health ratios of two heroes, as the
\* search makes it at its start.  It reads no module-level state.
CalculateWeights ==
    /\ ret = NoCall
    /\ \E player_hero \in Heroes, opponent_hero \in Heroes :
           ret' = [op |-> "calculate_weights",
                   player_hero |-> player_hero,
                   opponent_hero |-> opponent_hero,
                   player_hp_ratio |-> get_hp_ratio(player_hero),
                   opponent_hp_ratio |-> get_hp_ratio(opponent_hero),
                   context_weights |-> calculate_weights(get_hp_ratio(player_hero),
                                                         get_hp_ratio(opponent_hero))]
    /\ last_call' = NoCall
    /\ UNCHANGED <<training, db, ACTION_ENTITY_PROTOTYPES, influence_weights, weights_file>>

WeightsNext == CalculateWeights

WeightsSpec == Init /\ [][WeightsNext]_vars

(* ============================== claims ================================= *)
(* ---------------------- vocabulary of the claims ----------------------- *)
Zero == AttributeSet(0, 0, 0)
NameAt(sequence, i) == sequence[i][1].name
ScopeAt(sequence, i) == sequence[i][2]
RulesAt(sequence, i) == sequence[i][1].potential_influences

\* The model holds a parameter for (source, target, required scope)
HasParameter(source, target, required_scope) ==
    /\ ~influence_weights.is_none
    /\ <<source, target, get_scope_key(required_scope)>>
           \in ParamKeys(influence_weights.params)

ParameterOf(source, target, required_scope) ==
    influence_weights.params[source][target][get_scope_key(required_scope)]

\* The rule entries <<i, target, r>> of a sequence: r-th scope entry listed
\* by the action at position i for the target.
RuleEntries(sequence) ==
    UNION {UNION {{<<i, t, r>> : r \in 1..Len(RulesAt(sequence, i)[t])} :
                     t \in DOMAIN RulesAt(sequence, i)} :
           i \in 1..Len(sequence)}

RequiredScope(sequence, e) == RulesAt(sequence, e[1])[e[2]][e[3]]

\* A rule entry is active: its required scope is 'any' or the scope chosen
\* at its position, and the model holds its parameter.
Active(sequence, e) ==
    /\ \/ RequiredScope(sequence, e) = None
       \/ RequiredScope(sequence, e) = ScopeAt(sequence, e[1])
    /\ HasParameter(NameAt(sequence, e[1]), e[2], RequiredScope(sequence, e))

\* j is the nearest later position of the entry's target
NearestSuccessor(sequence, e, j) ==
    /\ j > e[1]
    /\ NameAt(sequence, j) = e[2]
    /\ \A k \in (e[1] + 1)..(j - 1) : NameAt(sequence, k) # e[2]

RECURSIVE SumParameters(_, _)
SumParameters(sequence, entries) ==
    IF entries = {} THEN Zero
    ELSE LET e == CHOOSE x \in entries : TRUE
         IN AttrAdd(ParameterOf(NameAt(sequence, e[1]), e[2], RequiredScope(sequence, e)),
                    SumParameters(sequence, entries \ {e}))

\* What position j is to receive: the parameters of the active rule entries
\* whose nearest successor is j.
ExpectedInfluence(sequence, j) ==
    SumParameters(sequence,
        {e \in RuleEntries(sequence) : Active(sequence, e) /\ NearestSuccessor(sequence, e, j)})

Dot(attributes, weights) ==
    attributes.attack * weights.attack + attributes.defense * weights.defense
    + attributes.support * weights.support

RECURSIVE SumOver(_, _, _)
SumOver(sequence, weights, influences) ==
    IF sequence = <<>> THEN 0
    ELSE Dot(AttrAdd(Head(sequence)[1].base_attributes, Head(influences)), weights)
         + SumOver(Tail(sequence), weights, Tail(influences))

\* The sum of the independently evaluated actions
BaseSum(sequence, weights) ==
    SumOver(sequence, weights, [j \in 1..Len(sequence) |-> Zero])

\* The arrangements of n choices: the tuples of distinct positions
Arrangements(n) ==
    {a \in SeqsUpTo(1..n, n) : \A p, q \in DOMAIN a : p # q => a[p] # a[q]}

Arranged(choices, a) == [p \in DOMAIN a |-> choices[a[p]]]

Count(sequence, x) == Cardinality({p \in DOMAIN sequence : sequence[p] = x})

IsFind == ret.op = "find_best_sequence"
IsScore == ret.op = "calculate_sequence_score_with_weights"
IsLookup == ret.op = "get_influence_modifier_tensor"

FindWeights ==
    calculate_weights(get_hp_ratio(ret.player.hero), get_hp_ratio(ret.opponent.hero))
FindChoices == possible_action_choices(ret.player.hand)
ScoreWeights == calculate_weights(ret.player_hp_ratio, ret.opponent_hp_ratio)

\* No parameter for any rule of any action of the sequence
NoParameterIn(sequence) ==
    \A e \in RuleEntries(sequence) :
        ~HasParameter(NameAt(sequence, e[1]), e[2], RequiredScope(sequence, e))

(* ------------------------------- C1 ------------------------------------ *)
\* C1: the score find_best_sequence returns is the score of the sequence it
\* returns, and no arrangement of any subset of the expanded choices of the
\* hand scores more.
C1_Optimal ==
    IsFind =>
        /\ ret.max_score = current_total_score(ret.best_sequence_choices, FindWeights)
        /\ \A a \in Arrangements(Len(FindChoices)) :
               ret.max_score >= current_total_score(Arranged(FindChoices, a), FindWeights)

\* A search in which the order matters and a proper subset wins: the
\* returned sequence leaves a choice out, and another order of the same
\* entries scores less.
C1_Witness ==
    /\ IsFind
    /\ Len(ret.best_sequence_choices) >= 2
    /\ Len(ret.best_sequence_choices) < Len(FindChoices)
    /\ \E a \in Arrangements(Len(FindChoices)) :
           /\ Len(a) = Len(ret.best_sequence_choices)
           /\ \A p \in DOMAIN a :
                  Count(Arranged(FindChoices, a), FindChoices[a[p]])
                      = Count(ret.best_sequence_choices, FindChoices[a[p]])
           /\ current_total_score(Arranged(FindChoices, a), FindWeights) < ret.max_score

(* ------------------------------- C2 ------------------------------------ *)
\* C2: scoring a sequence adds the modifier of each active rule entry of each
\* position i to exactly one position, the nearest later position whose
\* action has the target's name, and to none when there is no such position:
\* every position holds exactly the sum of the modifiers of the entries whose
\* nearest successor it is.  This holds of the training scorer's pass on the
\* scored sequence, and of the search's pass on every candidate.
C2_NearestSuccessor ==
    /\ IsScore =>
           \A j \in 1..Len(ret.sequence_choices) :
               ret.influences[j] = ExpectedInfluence(ret.sequence_choices, j)
    /\ IsFind =>
           /\ \A j \in 1..Len(ret.best_sequence_choices) :
                  ret.influences[j] = ExpectedInfluence(ret.best_sequence_choices, j)
           /\ \A a \in Arrangements(Len(FindChoices)) :
                  \A j \in 1..Len(a) :
                      influences_in_sequence(Arranged(FindChoices, a))[j]
                          = ExpectedInfluence(Arranged(FindChoices, a), j)

\* A scored sequence with an active rule entry at i whose target occurs at two
\* later positions: the nearer one received a modifier, and the farther one
\* holds nothing of it.
C2_Witness ==
    /\ IsScore
    /\ \E e \in RuleEntries(ret.sequence_choices) :
           /\ Active(ret.sequence_choices, e)
           /\ \E j, k \in 1..Len(ret.sequence_choices) :
                  /\ e[1] < j /\ j < k
                  /\ NameAt(ret.sequence_choices, j) = e[2]
                  /\ NameAt(ret.sequence_choices, k) = e[2]
                  /\ ret.influences[j] # Zero
                  /\ ret.influences[k] = Zero

(* ------------------------------- C3 ------------------------------------ *)
\* C3: the sequence find_best_sequence returns is an arrangement of distinct
\* entries of the expanded choice list: it is no longer than the list, holds
\* no entry more often than the list does, every entry's action is a card of
\* the hand, and every entry's scope is one of its action's scope options when
\* the action has options and None when it has none.
C3_Arrangement ==
    IsFind =>
        /\ Len(ret.best_sequence_choices) <= Len(FindChoices)
        /\ \A p \in DOMAIN ret.best_sequence_choices :
               LET entity == ret.best_sequence_choices[p][1]
                   scope == ret.best_sequence_choices[p][2]
               IN /\ Count(ret.best_sequence_choices, ret.best_sequence_choices[p])
                         <= Count(FindChoices, ret.best_sequence_choices[p])
                  /\ \E c \in DOMAIN ret.player.hand : ret.player.hand[c] = entity
                  /\ IF entity.scope # <<>>
                     THEN scope # None /\ scope[1] \in Elements(entity.scope)
                     ELSE scope = None

\* A returned sequence with an action played at one of several scope options
\* next to an action without options.
C3_Witness ==
    /\ IsFind
    /\ \E p, q \in DOMAIN ret.best_sequence_choices :
           /\ Len(ret.best_sequence_choices[p][1].scope) >= 2
           /\ ret.best_sequence_choices[p][2] # None
           /\ ret.best_sequence_choices[q][1].scope = <<>>
           /\ ret.best_sequence_choices[q][2] = None

(* ------------------------------- C4 ------------------------------------ *)
\* C4: the sequence find_best_sequence returns is no longer than the hand,
\* and no card of the hand is played more often than the hand holds it.
C4_AtMostHandSize ==
    IsFind =>
        /\ Len(ret.best_sequence_choices) <= Len(ret.player.hand)
        /\ \A p \in DOMAIN ret.best_sequence_choices :
               Cardinality({q \in DOMAIN ret.best_sequence_choices :
                               ret.best_sequence_choices[q][1]
                                   = ret.best_sequence_choices[p][1]})
                   <= Count(ret.player.hand, ret.best_sequence_choices[p][1])

(* ------------------------------- C5 ------------------------------------ *)
\* The scenario: the catalog is A and B, the model holds support+2 for the
\* rule A -> B at scope 1, and the hand is [A, B].
InScenario ==
    /\ IsFind
    /\ ACTION_ENTITY_PROTOTYPES = load_action_entity_prototypes(ScenarioData)
    /\ HasParameter("A", "B", Some(1))
    /\ ParameterOf("A", "B", Some(1)) = AttributeSet(0, 0, 2)
    /\ Len(ret.player.hand) = 2
    /\ ret.player.hand[1].name = "A"
    /\ ret.player.hand[2].name = "B"

\* Both heroes' health ratios lie in [0, 1]: every context weight is positive
UsualContext ==
    /\ FindWeights.attack > 0
    /\ FindWeights.defense > 0
    /\ FindWeights.support > 0

ScenarioOrder ==
    << <<ACTION_ENTITY_PROTOTYPES["A"], None>>, <<ACTION_ENTITY_PROTOTYPES["B"], Some(1)>> >>

\* C5 as stated: in the scenario find_best_sequence returns [A, (B, 1)] with
\* the score base(A) + base(B) + 2 x support weight.
C5_ScenarioAsStated ==
    InScenario /\ UsualContext =>
        /\ ret.best_sequence_choices = ScenarioOrder
        /\ ret.max_score = FindWeights.attack + FindWeights.support
                               + 2 * FindWeights.support

\* C5: in the scenario the rule A -> B at scope 1 never fires, for its
\* required scope is compared with the scope chosen for A and A is only ever
\* chosen without one: no position receives a modifier and the score is the
\* sum of the base scores of the returned entries; when every context weight
\* is positive the result is [A, (B, 1)], the first of the two orders, with
\* the score base(A) + base(B).
C5_Scenario ==
    InScenario =>
        /\ \A j \in DOMAIN ret.influences : ret.influences[j] = Zero
        /\ ret.max_score = BaseSum(ret.best_sequence_choices, FindWeights)
        /\ UsualContext =>
               /\ ret.best_sequence_choices = ScenarioOrder
               /\ ret.max_score = FindWeights.attack + FindWeights.support

\* The scenario searched in a context with positive weights
C5_Witness ==
    /\ InScenario
    /\ UsualContext
    /\ Len(ret.best_sequence_choices) = 2

(* ------------------------------- C6 ------------------------------------ *)
\* C6: when the model holds no parameter for any rule of any action of a
\* sequence, the sequence and every reordering of it score the sum of the
\* actions' base attributes dotted with the context weights.  This holds of
\* the training scorer on the scored sequence and of the search's scorer on
\* every candidate.
C6_NoCrossTerm ==
    /\ IsScore /\ NoParameterIn(ret.sequence_choices) =>
           /\ ret.score = BaseSum(ret.sequence_choices, ScoreWeights)
           /\ \A a \in Arrangements(Len(ret.sequence_choices)) :
                  Len(a) = Len(ret.sequence_choices) =>
                      calculate_sequence_score_with_weights(
                          Arranged(ret.sequence_choices, a),
                          ret.player_hp_ratio, ret.opponent_hp_ratio)
                          = BaseSum(ret.sequence_choices, ScoreWeights)
    /\ IsFind =>
           \A a \in Arrangements(Len(FindChoices)) :
               NoParameterIn(Arranged(FindChoices, a)) =>
                   current_total_score(Arranged(FindChoices, a), FindWeights)
                       = BaseSum(Arranged(FindChoices, a), FindWeights)

\* A scored sequence in which a rule's target follows its source at the
\* rule's scope, while the initialized model holds no parameter for any rule.
C6_Witness ==
    /\ IsScore
    /\ ~influence_weights.is_none
    /\ NoParameterIn(ret.sequence_choices)
    /\ \E e \in RuleEntries(ret.sequence_choices) :
           /\ RequiredScope(ret.sequence_choices, e) = ScopeAt(ret.sequence_choices, e[1])
           /\ \E j \in (e[1] + 1)..Len(ret.sequence_choices) :
                  NameAt(ret.sequence_choices, j) = e[2]

(* ------------------------------- C7 ------------------------------------ *)
\* C7 as stated: with the table None, a lookup or a search ends in an error
\* outcome.
C7_FatalAsStated ==
    (IsFind \/ IsLookup) /\ influence_weights.is_none => ret.outcome = "error"

\* C7: with the table None, a lookup returns None (after printing an error)
\* and find_best_sequence returns normally (after printing a warning) the
\* best sequence computed with every influence modifier zero: its score is
\* the sum of its base scores and no arrangement has a greater sum.
C7_Degrades ==
    influence_weights.is_none =>
        /\ IsLookup => ret.outcome = "returned" /\ ret.result = None
        /\ IsFind =>
               /\ ret.outcome = "returned"
               /\ \A j \in DOMAIN ret.influences : ret.influences[j] = Zero
               /\ ret.max_score = BaseSum(ret.best_sequence_choices, FindWeights)
               /\ \A a \in Arrangements(Len(FindChoices)) :
                      ret.max_score >= BaseSum(Arranged(FindChoices, a), FindWeights)

\* A search with the table None that returns a sequence in which a rule's
\* target follows its source at the rule's scope.
C7_Witness ==
    /\ IsFind
    /\ influence_weights.is_none
    /\ \E e \in RuleEntries(ret.best_sequence_choices) :
           /\ RequiredScope(ret.best_sequence_choices, e)
                  = ScopeAt(ret.best_sequence_choices, e[1])
           /\ \E j \in (e[1] + 1)..Len(ret.best_sequence_choices) :
                  NameAt(ret.best_sequence_choices, j) = e[2]

(* ------------------------------- C8 ------------------------------------ *)
\* C8: once the system is initialized from the database, every influence row
\* of the database whose source and target are catalog actions is listed in
\* the source's potential_influences under the target, and the model holds a
\* parameter for it.
C8_Wired ==
    db.tables =>
        \A i \in 1..Len(db.influences) :
            LET source == db.influences[i].source_entity_name
                target == db.influences[i].target_entity_name
                required_scope == db.influences[i].required_scope
            IN Has(ACTION_ENTITY_PROTOTYPES, source)
               /\ Has(ACTION_ENTITY_PROTOTYPES, target) =>
                   /\ Has(ACTION_ENTITY_PROTOTYPES[source].potential_influences, target)
                   /\ required_scope \in
                          Elements(ACTION_ENTITY_PROTOTYPES[source].potential_influences[target])
                   /\ HasParameter(source, target, required_scope)

(* ------------------------------- C9 ------------------------------------ *)
\* The triples (source, target, required scope) the catalog lists among its
\* own actions
CatalogTriples ==
    {x \in LookupNames \X LookupNames \X LookupScopes :
        /\ Has(ACTION_ENTITY_PROTOTYPES, x[1])
        /\ Has(ACTION_ENTITY_PROTOTYPES, x[2])
        /\ Has(ACTION_ENTITY_PROTOTYPES[x[1]].potential_influences, x[2])
        /\ x[3] \in Elements(ACTION_ENTITY_PROTOTYPES[x[1]].potential_influences[x[2]])}

\* C9: initialize_influence_weights leaves a table that holds a parameter for
\* (source, target, required scope) exactly when source and target are
\* catalog actions and the scope is listed in the source's
\* potential_influences[target]; it holds one parameter per such triple and
\* none besides.
C9_ParametersExactly ==
    [][InitializeInfluenceWeights =>
           /\ ~influence_weights'.is_none
           /\ \A x \in LookupNames \X LookupNames \X LookupScopes :
                  (<<x[1], x[2], get_scope_key(x[3])>>
                       \in ParamKeys(influence_weights'.params))
                  <=> x \in CatalogTriples
           /\ Cardinality(ParamKeys(influence_weights'.params))
                  = Cardinality(CatalogTriples)]_vars

\* An initialized table for a catalog that lists a scope twice and a target
\* that is no catalog action.
C9_Witness ==
    /\ ret = NoCall
    /\ ~db.tables
    /\ ~influence_weights.is_none
    /\ Cardinality(ParamKeys(influence_weights.params)) = Cardinality(CatalogTriples)
    /\ \E s \in DOMAIN ACTION_ENTITY_PROTOTYPES :
           /\ \E t \in DOMAIN ACTION_ENTITY_PROTOTYPES[s].potential_influences :
                  ~Has(ACTION_ENTITY_PROTOTYPES, t)
           /\ \E t \in DOMAIN ACTION_ENTITY_PROTOTYPES[s].potential_influences :
                  /\ HasParameter(s, t, Some(1))
                  /\ Len(ACTION_ENTITY_PROTOTYPES[s].potential_influences[t])
                         > Cardinality(Elements(
                               ACTION_ENTITY_PROTOTYPES[s].potential_influences[t]))

(* ------------------------------- C10 ----------------------------------- *)
\* C10 as stated: the lookup returns a modifier exactly when the model holds
\* a parameter for (source, target, r) with r the given scope or r 'any'.
C10_AnyMatchAsStated ==
    IsLookup =>
        ((\E r \in {ret.scope, None} : HasParameter(ret.source_name, ret.target_name, r))
            <=> ret.result # None)

\* C10: the lookup returns the parameter kept under exactly (source, target,
\* key of the scope passed), None being a scope of its own with the key
\* SCOPE_KEY_NONE, and returns None when there is no parameter under that
\* key, whatever is kept under the 'any' key.
C10_ExactKey ==
    IsLookup =>
        IF HasParameter(ret.source_name, ret.target_name, ret.scope)
        THEN ret.result = Some(ParameterOf(ret.source_name, ret.target_name, ret.scope))
        ELSE ret.result = None

\* A lookup at a scope that has no parameter of its own while the pair has
\* one for 'any': it returned None.
C10_Witness ==
    /\ IsLookup
    /\ ret.scope # None
    /\ HasParameter(ret.source_name, ret.target_name, None)
    /\ ~HasParameter(ret.source_name, ret.target_name, ret.scope)
    /\ ret.result = None

(* ------------------------------- C11 ----------------------------------- *)
\* The enumeration order of the arrangements: shorter first, and within one
\* length lexicographic by the positions in the expanded choice list.
Before(b, a) ==
    \/ Len(b) < Len(a)
    \/ /\ Len(b) = Len(a)
       /\ \E p \in DOMAIN a : b[p] < a[p] /\ \A q \in 1..(p - 1) : b[q] = a[q]

\* C11: the sequence find_best_sequence returns is the earliest, in the
\* enumeration order, of the arrangements with the greatest score: every
\* arrangement enumerated before it scores strictly less.
C11_FirstFound ==
    IsFind =>
        \E score \in {[a \in Arrangements(Len(FindChoices)) |->
                          current_total_score(Arranged(FindChoices, a), FindWeights)]} :
            \E a \in DOMAIN score :
                /\ Arranged(FindChoices, a) = ret.best_sequence_choices
                /\ score[a] = ret.max_score
                /\ \A b \in DOMAIN score : Before(b, a) => score[b] < ret.max_score

\* A search with a tie: a different sequence scores as much as the returned
\* one, which has two entries or more.
C11_Witness ==
    /\ IsFind
    /\ Len(ret.best_sequence_choices) >= 2
    /\ \E b \in Arrangements(Len(FindChoices)) :
           /\ Arranged(FindChoices, b) # ret.best_sequence_choices
           /\ current_total_score(Arranged(FindChoices, b), FindWeights) = ret.max_score

(* ------------------------------- C12 ----------------------------------- *)
IsRepeat == ret.op = "find_best_sequence twice"

ValueOf(weights, key) == weights.params[key[1]][key[2]][key[3]]

\* C17: load_weights (called directly or by initialize_system) leaves a table
\* that is not None and whose keys are exactly the catalog's triples; a key
\* the readable snapshot holds has the snapshot's value, every other key a
\* freshly drawn value; a snapshot key outside the catalog's triples is not
\* added; a missing or unreadable file leaves every key freshly drawn.
C17_LoadOverlay ==
    [][LoadWeights \/ InitializeSystem =>
           /\ ~influence_weights'.is_none
           /\ \A x \in LookupNames' \X LookupNames' \X LookupScopes :
                  (<<x[1], x[2], get_scope_key(x[3])>>
                       \in ParamKeys(influence_weights'.params))
                  <=> x \in CatalogTriples'
           /\ Cardinality(ParamKeys(influence_weights'.params))
                  = Cardinality(CatalogTriples')
           /\ \A key \in ParamKeys(influence_weights'.params) :
                  IF /\ weights_file.exists
                     /\ weights_file.readable
                     /\ Has(weights_file.state_dict, key)
                  THEN ValueOf(influence_weights', key) = weights_file.state_dict[key]
                  ELSE ValueOf(influence_weights', key) \in ModifierValues]_vars

\* A table loaded over a snapshot that shares a key with it, lacks another of
\* its keys and holds a key it has not.
C17_Witness ==
    /\ last_call = [op |-> "load_weights", outcome |-> "loaded"]
    /\ ~influence_weights.is_none
    /\ \E key \in ParamKeys(influence_weights.params) \cap DOMAIN weights_file.state_dict :
           ValueOf(influence_weights, key) = weights_file.state_dict[key]
    /\ ParamKeys(influence_weights.params) \ DOMAIN weights_file.state_dict # {}
    /\ DOMAIN weights_file.state_dict \ ParamKeys(influence_weights.params) # {}

(* ------------------------------- C18 ----------------------------------- *)
\* C18: load_weights called right after a save_weights that wrote the table
\* (which then has a parameter or more), the catalog being the same, leaves
\* the table as it was: the same keys with the values saved.
C18_RoundTrip ==
    [][LoadWeights /\ last_call = [op |-> "save_weights", outcome |-> "saved"] =>
           influence_weights' = influence_weights]_vars

\* A table of two parameters or more, not all alike, loaded back from the
\* snapshot that holds exactly its values.
C18_Witness ==
    /\ last_call = [op |-> "load_weights", outcome |-> "loaded"]
    /\ ~influence_weights.is_none
    /\ weights_file = File(state_dict(influence_weights.params))
    /\ \E k1, k2 \in ParamKeys(influence_weights.params) :
           ValueOf(influence_weights, k1) # ValueOf(influence_weights, k2)

(* ------------------------------- C19 ----------------------------------- *)
EmptyModel == influence_weights.is_none \/ DOMAIN influence_weights.params = {}

\* C19 as stated: save_weights called with a model without parameters signals
\* a failure to its caller.
C19_FailsLoudlyAsStated ==
    last_call.op = "save_weights" /\ EmptyModel => last_call.outcome = "raised"

\* C19: save_weights called with a model without parameters (None or empty)
\* prints a warning and returns normally; the snapshot file is left as it is.
C19_WarnsAndReturns ==
    [][SaveWeights /\ EmptyModel =>
           /\ last_call' = [op |-> "save_weights", outcome |-> "warning"]
           /\ weights_file' = weights_file]_vars

\* save_weights has returned with its warning for an initialized, empty table,
\* next to a snapshot file that is still there.
C19_Witness ==
    /\ last_call = [op |-> "save_weights", outcome |-> "warning"]
    /\ ~influence_weights.is_none
    /\ weights_file.exists

(* ------------------------------- C13 ----------------------------------- *)
\* An entry of a sample carries a scope for an action of the loaded catalog
\* that the action does not offer.
ForeignScope(entry) ==
    /\ entry[2] # None
    /\ entry[2][1] \notin Elements(ACTION_ENTITY_PROTOTYPES[entry[1]].scope)

\* A sample the training loop keeps: it has an entry, every entry names an
\* action of the loaded catalog, and no entry carries a foreign scope.
Admissible(sample) ==
    /\ sample.sequence # <<>>
    /\ \A n \in DOMAIN sample.sequence :
           /\ sample.sequence[n][1] \in DOMAIN ACTION_ENTITY_PROTOTYPES
           /\ ~ForeignScope(sample.sequence[n])

\* A sample whose every entry is legal as the specification words it: a
\* named action of the catalog, with one of its scope options when it has
\* any and with no scope when it has none.
LegalAsStated(sample) ==
    \A n \in DOMAIN sample.sequence :
        /\ sample.sequence[n][1] \in DOMAIN ACTION_ENTITY_PROTOTYPES
        /\ IF ACTION_ENTITY_PROTOTYPES[sample.sequence[n][1]].scope = <<>>
           THEN sample.sequence[n][2] = None
           ELSE /\ sample.sequence[n][2] # None
                /\ ~ForeignScope(sample.sequence[n])

\* -outcome * score of an admissible sample, with the weights of this state
ExpectedLoss(sample) ==
    LET den == calculate_weights(sample.state.player_hp_ratio,
                   sample.state.opponent_hp_ratio).den
        score ==
            calculate_sequence_score_with_weights(
                [n \in DOMAIN sample.sequence |->
                    <<ACTION_ENTITY_PROTOTYPES[sample.sequence[n][1]], sample.sequence[n][2]>>],
                sample.state.player_hp_ratio, sample.state.opponent_hp_ratio)
    IN <<-sample.outcome * score, den>>

\* The losses of the admissible samples of a batch, in the batch's order
RECURSIVE ExpectedLosses(_, _)
ExpectedLosses(batch, n) ==
    IF n > Len(batch) THEN <<>>
    ELSE (IF Admissible(batch[n]) THEN <<ExpectedLoss(batch[n])>> ELSE <<>>)
         \o ExpectedLosses(batch, n + 1)

\* a / b = c / d
SameFraction(x, y) == x[1] * y[2] = y[1] * x[2]

NoValidSample(batch) == \A n \in DOMAIN batch : ~Admissible(batch[n])

\* C14: a batch without a valid sample performs no optimizer step: every
\* parameter keeps its value (and the optimizer its state), and the batch
\* adds nothing to the epoch's loss, to its count of processed samples or to
\* its count of batches.
C14_NoStep ==
    [][TrainBatch /\ NoValidSample(training'.batch) =>
        /\ influence_weights' = influence_weights
        /\ training'.optimizer = training.optimizer
        /\ training'.steps = training.steps
        /\ training'.epoch_loss = training.epoch_loss
        /\ training'.processed_samples = training.processed_samples
        /\ training'.num_batches = training.num_batches]_vars

\* A batch without a valid sample has just been processed, in an epoch whose
\* earlier batch made a step and left a loss.
C14_Witness ==
    /\ training.pc = "batch"
    /\ training.batch # <<>>
    /\ NoValidSample(training.batch)
    /\ training.valid_samples_in_batch = 0
    /\ training.num_batches = 1
    /\ training.processed_samples = 1
    /\ training.epoch_loss # FracZero
    /\ training.steps > 0

(* ------------------------------- C15 ----------------------------------- *)
\* The sum of a list of fractions from entry n on, not reduced
RECURSIVE SumOfFractions(_, _)
SumOfFractions(list, n) ==
    IF n > Len(list) THEN <<0, 1>>
    ELSE LET rest == SumOfFractions(list, n + 1)
         IN <<list[n][1] * rest[2] + rest[1] * list[n][2], list[n][2] * rest[2]>>

\* sum / count
MeanOf(sum, count) == <<sum[1], sum[2] * count>>

\* C15: the loss back-propagated for a batch is the sum of -outcome * score
\* over the batch's valid samples divided by their number (the samples left
\* out are not in the denominator), and the loss reported for an epoch is the
\* sum of the losses of all valid samples of the epoch, each as it was when
\* its batch was scored, divided by their number.
C15_LossAccounting ==
    [][/\ TrainBatch /\ ~NoValidSample(training'.batch) =>
              LET expected == ExpectedLosses(training'.batch, 1)
              IN SameFraction(training'.avg_batch_loss,
                     MeanOf(SumOfFractions(expected, 1), Len(expected)))
       /\ EndEpoch /\ training.losses # <<>> =>
              /\ training'.epoch_report.kind = "average"
              /\ SameFraction(training'.epoch_report.avg_epoch_loss,
                     MeanOf(SumOfFractions(training.losses, 1), Len(training.losses)))]_vars

\* An epoch has reported the mean loss of its two valid samples, scored in
\* two batches, the second after the first one's step.
C15_Witness ==
    /\ training.pc \in {"epoch", "returned"}
    /\ training.epoch_report.kind = "average"
    /\ training.epoch_report.avg_epoch_loss[1] # 0
    /\ training.num_batches = 2
    /\ Len(training.losses) = 2
    /\ training.losses[1] # training.losses[2]

\* A batch of two samples, one of them left out, has been scored: its mean
\* loss is the loss of the one valid sample.
C15_WitnessBatch ==
    /\ training.pc = "batch"
    /\ Len(training.batch) = 2
    /\ training.valid_samples_in_batch = 1
    /\ training.avg_batch_loss[1] # 0
    /\ training.avg_batch_loss = training.losses[Len(training.losses)]

(* ------------------------------- C16 ----------------------------------- *)
\* training_loop was called and its data holds no valid sample: the data is
\* empty, or every sample is left out of its batch.
NoValidData ==
    /\ training.pc # "idle"
    /\ training.report # "abort: weights"
    /\ training.report # "ValueError: lr"
    /\ \A n \in DOMAIN training.training_data : ~Admissible(training.training_data[n])

\* Every argument of the call is positive.
PositiveArguments ==
    /\ training.num_epochs > 0
    /\ training.learning_rate > 0
    /\ training.batch_size > 0
    /\ training.num_dummy_samples > 0

\* C16 as stated: with no valid sample in the training data the run stops
\* before its epochs: no epoch is completed, no optimizer step is made and
\* no snapshot is written.  The code aborts only on empty data; when every
\* sample is invalid it runs every epoch and saves a snapshot after the last.
C16_AbortsAsStated ==
    NoValidData /\ PositiveArguments =>
        /\ training.epoch = 0
        /\ training.steps = 0
        /\ training.saves = 0
        /\ weights_file = NoFile

\* The part of C16 that holds: empty training data ends the run with the
\* report "No training data generated or available", before any epoch, step
\* or save; and data without a valid sample never leads to an optimizer step.
C16_EmptyDataAborts ==
    /\ training.pc # "idle" /\ training.report = "abort: no data" =>
           /\ training.pc = "returned"
           /\ training.epoch = 0 /\ training.steps = 0 /\ training.saves = 0
           /\ weights_file = NoFile
    /\ NoValidData => training.steps = 0

\* A run on data whose every sample is invalid has returned after its last
\* epoch, which reported no valid sample, and has written a snapshot.
C16_Witness ==
    /\ NoValidData
    /\ PositiveArguments
    /\ training.batch # <<>>
    /\ training.training_data # <<>>
    /\ training.pc = "returned"
    /\ training.epoch = training.num_epochs
    /\ training.epoch_report.kind = "no valid"
    /\ training.steps = 0
    /\ training.saves > 0
    /\ weights_file # NoFile /\ weights_file.readable

(* ------------------------------- C20 ----------------------------------- *)
\* C20 as stated: a call of training_loop with an epoch count, learning
\* rate, batch size or sample count that is zero or negative is rejected
\* before any training: no epoch is completed, no optimizer step is made and
\* no snapshot is saved.  Neither training_loop nor main.py validates them:
\* a learning rate of 0 trains and saves, a negative batch size runs epochs
\* without batches and saves.
C20_RejectedAsStated ==
    training.pc # "idle" /\ ~PositiveArguments =>
        /\ training.epoch = 0
        /\ training.steps = 0
        /\ training.saves = 0
        /\ weights_file = NoFile

\* A run with learning rate 0 has made an optimizer step, finished its epoch
\* and written a snapshot.
C20_Witness ==
    /\ training.pc = "returned"
    /\ training.learning_rate = 0
    /\ training.num_epochs > 0 /\ training.batch_size > 0
    /\ training.num_dummy_samples > 0
    /\ training.steps > 0
    /\ training.saves > 0
    /\ weights_file # NoFile

\* A run with a negative batch size has finished an epoch without a batch
\* and written a snapshot.
C20_WitnessBatchSize ==
    /\ training.pc = "returned"
    /\ training.batch_size < 0
    /\ training.epoch = 1
    /\ training.batch = <<>>
    /\ training.saves > 0
    /\ weights_file # NoFile

\* What does stop a run with such arguments, each after load_weights has
\* replaced the global weight table: a negative learning rate (Adam raises
\* ValueError), a batch size of 0 (range raises ValueError in the first
\* epoch), a sample count below 1 (no data: the abort report); an epoch count
\* below 1 returns without a report.
C20_WhatStops ==
    training.pc # "idle" /\ training.report # "abort: weights" =>
        LET lr_accepted == training.learning_rate >= 0
            has_data == lr_accepted /\ training.num_dummy_samples >= 1
            has_epochs == has_data /\ training.num_epochs >= 1
        IN /\ ~lr_accepted =>
                  training.pc = "raised" /\ training.report = "ValueError: lr"
           /\ (lr_accepted /\ ~has_data) =>
                  training.pc = "returned" /\ training.report = "abort: no data"
           /\ (has_data /\ ~has_epochs) =>
                  training.pc = "returned" /\ training.report = ""
           /\ (has_epochs /\ training.batch_size = 0) =>
                  /\ training.pc \in {"epoch", "raised"}
                  /\ training.steps = 0
                  /\ training.saves = 0
                  /\ (training.pc = "raised") = (training.report = "ValueError: range")
(* ------------------------------- C22 ----------------------------------- *)
IsWeights == ret.op = "calculate_weights"
\* r is the health ratio of hero as stated: current_hp / max_hp, 0 at max_hp 0.
StatedRatio(hero, r) ==
    /\ r[2] > 0
    /\ IF hero.max_hp = 0 THEN r[1] = 0 ELSE r[1] * hero.max_hp = hero.current_hp * r[2]
InUnit(r) == 0 <= r[1] /\ r[1] <= r[2]
RatioLeq(r, q) == r[1] * q[2] <= q[1] * r[2]
\* The weight n / d lies in [1, 2].
InOneTwo(n, d) == d <= n /\ n <= 2 * d

\* C22: the context weights are attack = 1 + (1 - opponent health ratio),
\* defense = 1 + (1 - player health ratio) and support = 1, a health ratio
\* being current_hp / max_hp and 0 when max_hp is 0; for ratios within
\* [0, 1] the attack and defense weights lie within [1, 2] and never grow
\* when their ratio grows.
C22_ContextWeights ==
    IsWeights =>
        LET p == ret.player_hp_ratio
            o == ret.opponent_hp_ratio
            w == ret.context_weights
        IN /\ StatedRatio(ret.player_hero, p)
           /\ StatedRatio(ret.opponent_hero, o)
           /\ w.den > 0
           /\ w.attack * o[2] = w.den * (2 * o[2] - o[1])
           /\ w.defense * p[2] = w.den * (2 * p[2] - p[1])
           /\ w.support = w.den
           /\ (InUnit(o) => InOneTwo(w.attack, w.den))
           /\ (InUnit(p) => InOneTwo(w.defense, w.den))
           /\ \A other \in Heroes :
                  LET q == get_hp_ratio(other)
                      higher_opponent == calculate_weights(p, q)
                      higher_player == calculate_weights(q, o)
                  IN /\ (InUnit(o) /\ InUnit(q) /\ RatioLeq(o, q)
                         => higher_opponent.attack * w.den <= w.attack * higher_opponent.den)
                     /\ (InUnit(p) /\ InUnit(q) /\ RatioLeq(p, q)
                         => higher_player.defense * w.den <= w.defense * higher_player.den)

\* A player whose hero has max_hp 0 (ratio 0, defense weight 2) against an
\* opponent at a third of its health (attack weight 1 + 2/3).
C22_Witness ==
    /\ IsWeights
    /\ ret.player_hero = Hero(0, 2)
    /\ ret.opponent_hero = Hero(3, 1)
    /\ ret.context_weights.defense = 2 * ret.context_weights.den
    /\ 3 * ret.context_weights.attack = 5 * ret.context_weights.den

(* ------------------------------- C27 ----------------------------------- *)
\* Every arrangement of the expanded choices of the hand scores at most 0.
NothingPays ==
    \A a \in Arrangements(Len(FindChoices)) :
        current_total_score(Arranged(FindChoices, a), FindWeights) <= 0

\* C27: the score find_best_sequence returns is never negative; when the
\* hand is empty, or every arrangement of its choices scores at most 0, the
\* result is the empty sequence with score exactly 0.
C27_NeverNegative ==
    IsFind =>
        /\ ret.max_score >= 0
        /\ (ret.player.hand = <<>> \/ NothingPays
               => ret.best_sequence_choices = <<>> /\ ret.max_score = 0)

\* A hand of two cards or more whose every non-empty arrangement scores
\* below 0: the search returns the empty sequence.
C27_Witness ==
    /\ IsFind
    /\ Len(ret.player.hand) >= 2
    /\ \A a \in Arrangements(Len(FindChoices)) :
           a # <<>> => current_total_score(Arranged(FindChoices, a), FindWeights) < 0
    /\ ret.best_sequence_choices = <<>>
    /\ ret.max_score = 0

\* The search on an empty hand.
C27_WitnessEmptyHand ==
    /\ IsFind
    /\ ret.player.hand = <<>>
    /\ ret.best_sequence_choices = <<>>
    /\ ret.max_score = 0

(* ------------------------------- C26 ----------------------------------- *)
\* C26: for every sequence of action choices, every context and every state
\* of the weight model, not initialized included, the total the search
\* computes inline for the sequence is the value of
\* calculate_sequence_score_with_weights for that sequence, context and
\* model: of the sequence scored directly, and of every candidate of a search.
C26_ScorersAgree ==
    /\ IsScore => ret.score = current_total_score(ret.sequence_choices, ScoreWeights)
    /\ IsFind =>
           LET player_hp_ratio == get_hp_ratio(ret.player.hero)
               opponent_hp_ratio == get_hp_ratio(ret.opponent.hero)
           IN /\ ret.max_score =
                     calculate_sequence_score_with_weights(ret.best_sequence_choices,
                         player_hp_ratio, opponent_hp_ratio)
              /\ \A a \in Arrangements(Len(FindChoices)) :
                     current_total_score(Arranged(FindChoices, a), FindWeights)
                         = calculate_sequence_score_with_weights(Arranged(FindChoices, a),
                               player_hp_ratio, opponent_hp_ratio)

\* A sequence scored with an initialized model in a context whose attack
\* weight is not 1, a modifier that is not zero added at some position.
C26_Witness ==
    /\ IsScore
    /\ ~influence_weights.is_none
    /\ ScoreWeights.attack # ScoreWeights.den
    /\ \E j \in 1..Len(ret.sequence_choices) : ret.influences[j] # Zero
    /\ ret.score = current_total_score(ret.sequence_choices, ScoreWeights)

\* A rule-bearing sequence scored while the weight model is not initialized.
C26_WitnessNotInitialized ==
    /\ IsScore
    /\ influence_weights.is_none
    /\ RuleEntries(ret.sequence_choices) # {}
    /\ Len(ret.sequence_choices) >= 2
    /\ ret.score = current_total_score(ret.sequence_choices, ScoreWeights)

(* ------------------------------- C25 ----------------------------------- *)
\* A step in which a call of find_best_sequence returns.
SearchReturns == ret' # ret /\ ret'.op \in {"find_best_sequence", "find_best_sequence twice"}
\* The player and the opponent the call was handed: those of the call before
\* it when it is a repeated call.
HandedPlayer == IF ret.op = "find_best_sequence" THEN ret.player_after ELSE ret'.player
HandedOpponent == IF ret.op = "find_best_sequence" THEN ret.opponent_after ELSE ret'.opponent
\* The steps that may write parameter values: initialize, load (start-up and
\* the training loop's own load included) and the optimizer step.
WritesParameters ==
    \/ InitializeInfluenceWeights
    \/ LoadWeights
    \/ InitializeSystem
    \/ TrainingLoop
    \/ TrainBatch

OrderCase(s, t) ==
    /\ IsFind
    /\ Len(ret.player.hand) = 2
    /\ s # t
    /\ LET S == ret.player.hand[s]
           T == ret.player.hand[t]
       IN /\ S.name # T.name
          /\ S.scope = <<1>>
          /\ T.scope = <<>>
          /\ DOMAIN S.potential_influences = {T.name}
          /\ S.potential_influences[T.name] = <<Some(1)>>
          /\ DOMAIN T.potential_influences = {}
          /\ HasParameter(S.name, T.name, Some(1))
          /\ Dot(ParameterOf(S.name, T.name, Some(1)), FindWeights) > 0
          /\ Dot(S.base_attributes, FindWeights) > 0
          /\ Dot(T.base_attributes, FindWeights) > 0

\* C24: with such a hand, in either hand order, find_best_sequence returns
\* [(S, 1), (T, none)] with the score base(S) + base(T) + the weighted
\* modifier, and so never the order [T, S].
C24_SourceFirst ==
    \A s, t \in 1..2 :
        OrderCase(s, t) =>
            LET S == ret.player.hand[s]
                T == ret.player.hand[t]
            IN /\ ret.best_sequence_choices = << <<S, Some(1)>>, <<T, None>> >>
               /\ ret.max_score =
                      Dot(S.base_attributes, FindWeights) + Dot(T.base_attributes, FindWeights)
                      + Dot(ParameterOf(S.name, T.name, Some(1)), FindWeights)

\* The hand holds T first and S second, and the search has returned S first.
C24_Witness ==
    /\ OrderCase(2, 1)
    /\ ret.best_sequence_choices[1][1] = ret.player.hand[2]
    /\ ret.best_sequence_choices[2][1] = ret.player.hand[1]
    /\ ret.influences[2] # Zero

\* The hand holds S first and T second.
C24_WitnessHandOrder ==
    /\ OrderCase(1, 2)
    /\ ret.best_sequence_choices[1][1] = ret.player.hand[1]

(* ------------------------------- C21 ----------------------------------- *)
\* A training run, past its load, on the catalog A (no scope options), B
\* (scope options {1}) with the rule A -> B at required scope 1, handed the
\* loaded catalog.
ScenarioRun ==
    /\ training # NotTraining
    /\ training.initial_weights # EmptyDict
    /\ training.prototypes = ACTION_ENTITY_PROTOTYPES
    /\ DOMAIN ACTION_ENTITY_PROTOTYPES = {"A", "B"}
    /\ ACTION_ENTITY_PROTOTYPES["A"].scope = <<>>
    /\ ACTION_ENTITY_PROTOTYPES["B"].scope = <<1>>
    /\ DOMAIN ACTION_ENTITY_PROTOTYPES["A"].potential_influences = {"B"}
    /\ ACTION_ENTITY_PROTOTYPES["A"].potential_influences["B"] = <<Some(1)>>

ValueAt(weights, key) == weights[key[1]][key[2]][key[3]]
\* Every attribute of x is strictly greater than that of y.
Greater(x, y) == x.attack > y.attack /\ x.defense > y.defense /\ x.support > y.support

\* The sequence holds an A followed, somewhere later, by (B, scope 1).
HasPattern(sequence) ==
    \E i, j \in DOMAIN sequence :
        i < j /\ sequence[i][1] = "A" /\ sequence[j] = <<"B", Some(1)>>

\* Every sequence with the pattern is labelled +1 and every other one -1.
LabelledAsStated ==
    \A n \in DOMAIN training.training_data :
        training.training_data[n].outcome
            = IF HasPattern(training.training_data[n].sequence) THEN 1 ELSE -1

\* The sample is not skipped and the scoring of its sequence adds the
\* parameter to some position.
AppliedIn(sample, key) ==
    /\ sample_loss(sample) # None
    /\ Applications(ResolveEntries(sample.sequence, 1, <<>>).sequence_choices, key) > 0

AppliedAmong(samples, key) == \E n \in DOMAIN samples : AppliedIn(samples[n], key)

\* The parameter is applied in +1-labelled samples of the run's data only.
OnlyPositive(key) ==
    \A n \in DOMAIN training.training_data :
        AppliedIn(training.training_data[n], key)
            => training.training_data[n].outcome = 1

\* C21 as stated: in the scenario, after a run with at least one optimizer
\* step on data labelled +1 exactly for the sequences holding A followed by
\* (B, scope 1), each attribute of the modifier (A, B, scope 1) is strictly
\* greater than its initial value.
C21_RaisedAsStated ==
    (/\ ScenarioRun
     /\ training.pc = "returned"
     /\ training.steps >= 1
     /\ training.learning_rate > 0
     /\ LabelledAsStated
     /\ \E n \in DOMAIN training.training_data :
            HasPattern(training.training_data[n].sequence))
    => Greater(ValueAt(influence_weights.params, <<"A", "B", "1">>),
               ValueAt(training.initial_weights, <<"A", "B", "1">>))

\* C21: in the scenario the modifier (A, B, scope 1) keeps its initial value
\* through the whole run, whatever the labels: its rule requires scope 1 of
\* its source A, which is only ever chosen without a scope, so no sample
\* applies it and it never has a gradient.  In general an optimizer step
\* with a positive learning rate strictly raises every attribute of a
\* parameter that the step's batch applies and that the run's data applies
\* in +1-labelled samples only, and leaves a parameter the batch does not
\* apply as it is; at the return of a run that has stepped, such a parameter
\* applied by some sample is strictly greater than its initial value in
\* every attribute.
C21_Direction ==
    [][/\ ScenarioRun' =>
              ValueAt(influence_weights.params, <<"A", "B", "1">>)'
                  = ValueAt(training.initial_weights, <<"A", "B", "1">>)'
       /\ training # NotTraining /\ training'.steps = training.steps + 1 =>
              \A key \in ParamKeys(influence_weights.params) :
                  /\ (/\ training.learning_rate > 0
                      /\ OnlyPositive(key)
                      /\ AppliedAmong(training'.batch, key)
                      => Greater(ValueAt(influence_weights'.params, key),
                                 ValueAt(influence_weights.params, key)))
                  /\ (~AppliedAmong(training'.batch, key)
                      => ValueAt(influence_weights'.params, key)
                             = ValueAt(influence_weights.params, key))
       /\ training # NotTraining /\ training'.pc = "returned" /\ training'.steps >= 1 =>
              \A key \in ParamKeys(influence_weights'.params) :
                  /\ training.learning_rate > 0
                  /\ OnlyPositive(key)
                  /\ AppliedAmong(training.training_data, key)
                  => Greater(ValueAt(influence_weights'.params, key),
                             ValueAt(training'.initial_weights, key))]_vars

\* A run in the scenario has returned after an optimizer step on data
\* labelled as stated, a sample of which holds A followed by (B, scope 1),
\* and the modifier (A, B, scope 1) has its initial value.
C21_Witness ==
    /\ ScenarioRun
    /\ training.pc = "returned"
    /\ training.steps >= 1
    /\ training.learning_rate > 0
    /\ LabelledAsStated
    /\ \E n \in DOMAIN training.training_data :
           /\ HasPattern(training.training_data[n].sequence)
           /\ training.training_data[n].outcome = 1
    /\ ValueAt(influence_weights.params, <<"A", "B", "1">>)
           = ValueAt(training.initial_weights, <<"A", "B", "1">>)

\* A run has returned with a parameter its data applies, in +1-labelled
\* samples only, raised above its initial value, next to a -1-labelled
\* sample that does not apply it.
C21_WitnessRaised ==
    /\ training # NotTraining
    /\ training.pc = "returned"
    /\ training.steps >= 2
    /\ \E key \in ParamKeys(influence_weights.params) :
           /\ OnlyPositive(key)
           /\ AppliedAmong(training.training_data, key)
           /\ \E n \in DOMAIN training.training_data :
                  /\ training.training_data[n].outcome = -1
                  /\ sample_loss(training.training_data[n]) # None
           /\ Greater(ValueAt(influence_weights.params, key),
                      ValueAt(training.initial_weights, key))

(* ------------------------------- C23 ----------------------------------- *)
\* A step in which an epoch of the run ends.
EpochEnds == training # NotTraining /\ training'.epoch = training.epoch + 1
\* The epoch that has just ended, counted from 1, is a fifth one or the last.
SaveExpected == training'.epoch % 5 = 0 \/ training'.epoch = training.num_epochs
\* The file holds the parameter values of the table.
HoldsParameters(file, weights) == file = File(state_dict(weights.params))
\* The saves a finished run of n epochs has attempted.
SavesOf(n) == n \div 5 + (IF n % 5 = 0 THEN 0 ELSE 1)

\* C23: in a run that has started its epochs, the end of an epoch attempts a
\* save exactly when the epoch is a fifth one or the last; the save comes
\* after the epoch's optimizer steps and touches no parameter, a save that
\* succeeds leaves the file holding the parameter values of that moment (the
\* final ones after the last epoch), one that fails is followed by the next
\* epoch or by the normal return like one that succeeds, and a finished run
\* of n epochs has attempted one save per fifth epoch and one for a last
\* epoch that is not a fifth.
C23_SaveSchedule ==
    [][EpochEnds =>
          /\ DOMAIN influence_weights.params # {}
          /\ training.num_epochs >= 1
          /\ influence_weights' = influence_weights
          /\ training'.steps = training.steps
          /\ IF SaveExpected
             THEN /\ last_call'.op = "save_weights"
                  /\ training'.saves = training.saves + 1
                  /\ last_call'.outcome \in {"saved", "error"}
                  /\ (last_call'.outcome = "saved"
                         => HoldsParameters(weights_file', influence_weights'))
             ELSE /\ last_call' = NoCall
                  /\ training'.saves = training.saves
                  /\ weights_file' = weights_file
          /\ training'.report = ""
          /\ training'.pc = IF training'.epoch < training.num_epochs
                            THEN "epoch" ELSE "returned"
          /\ (training'.pc = "returned"
                 => /\ SaveExpected
                    /\ training'.saves = SavesOf(training.num_epochs))]_vars

\* A run of more than five epochs has returned: it has attempted two saves,
\* has stepped in every epoch, and its last save has left the file holding
\* the final parameter values, which are not the initial ones.
C23_Witness ==
    /\ training # NotTraining
    /\ training.pc = "returned"
    /\ training.num_epochs > 5
    /\ training.epoch = training.num_epochs
    /\ training.steps = training.num_epochs
    /\ training.saves = 2
    /\ last_call = [op |-> "save_weights", outcome |-> "saved"]
    /\ HoldsParameters(weights_file, influence_weights)
    /\ influence_weights.params # training.initial_weights

\* The save after the fifth epoch has failed and the run goes on to its
\* sixth epoch.
C23_WitnessFailedSave ==
    /\ training # NotTraining
    /\ training.epoch = 5
    /\ training.num_epochs > 5
    /\ training.pc = "epoch"
    /\ last_call = [op |-> "save_weights", outcome |-> "error"]
    /\ training.saves = 1

====
